---- MODULE Spec2Model ----
(***************************************************************************)
(* A model of watcherino: the RingBuffer message history, the per-channel  *)
(* IRC Client (Connect, Start, the listen loop, the safe-send functions    *)
(* and Stop) and the App that owns the channel -> connection map.          *)
(*                                                                         *)
(* Three specifications are defined over the same variables:               *)
(*   SpecRB    drives one RingBuffer through Add, GetAll and GetLast;      *)
(*   SpecConn  drives one Client through its lifecycle, with its listen    *)
(*             goroutine, a forwardMessages goroutine and two callers of   *)
(*             Stop;                                                       *)
(*   SpecSup   drives the App's commands over two channels.                *)
(***************************************************************************)
EXTENDS Integers, Sequences, FiniteSets, TLC

VARIABLES
    ring,       \* SpecRB: the RingBuffer under test
    added,      \* SpecRB: every message handed to Add so far, in order
    got,        \* SpecRB: the last read: [op, n, result]
    client,     \* per connection id: the Client struct
    mu,         \* per connection id: who holds Client.mu for writing
    socket,     \* per connection id: the TCP session behind Client.conn
    listen,     \* per connection id: the listen goroutine
    conns,      \* per connection id: the ChannelConnection struct
    fwd,        \* per connection id: the forwardMessages goroutine
    life,       \* per connection id: how far its creator has brought it
    app,        \* the App struct
    appMu,      \* App.connectionsMu: [w: the writer, r: the readers]
    proc,       \* per caller: the command it runs and where it is in it
    out,        \* the signals the last step emitted (runtime.EventsEmit)
    fan,        \* the call of ConnectToAllChannels: its locals and its result
    emo,        \* emotes.go: the catalogs, the cache, the files, the last call
    prs,        \* the last call of parsePrivMsg: its line and what it returned
    mon,        \* per connection id: the monitorViewerCount goroutine
    panic       \* "none", or the run-time panic that ended the process

rbVars == <<ring, added, got>>

clientVars == <<client, mu, socket, listen>>

appVars == <<conns, fwd, mon, life, app, appMu, proc, out, fan>>

vars == <<ring, added, got, client, mu, socket, listen, conns, fwd, life,
          app, appMu, proc, out, fan, emo, prs, mon, panic>>

(***************************************************************************)
(* Bounds                                                                  *)
(***************************************************************************)
MaxCap == 3

MaxAdds == 5

MaxN == 4

Min(a, b) == IF a < b THEN a ELSE b

(***************************************************************************)
(* Message: only the fields the modelled code reads.  The zero Message     *)
(* (an unwritten RingBuffer slot) has the zero Timestamp.                  *)
(***************************************************************************)
Contents == {<<"a">>, <<"b">>}

\* a Message whose Tags["emotes"] is g
TaggedMessage(t, c, g) == [Timestamp |-> t, Content |-> c, emotesTag |-> g]

Message(t, c) == TaggedMessage(t, c, <<>>)

ZeroMessage == Message(0, <<>>)

IsZero(t) == t = 0

(***************************************************************************)
(* RingBuffer                                                              *)
(***************************************************************************)
NewRingBuffer(size) ==
    [messages |-> [i \in 0..(size - 1) |-> ZeroMessage],
     size     |-> size,
     index    |-> 0]

\* a bug Add could have: the cursor is not wrapped at the end of the slots
AddNoWrap(rb, msg) ==
    [rb EXCEPT !.messages = [rb.messages EXCEPT ![rb.index] = msg],
               !.index    = IF rb.index + 1 < rb.size THEN rb.index + 1 ELSE rb.index]

Add(rb, msg) ==
    [rb EXCEPT !.messages = [rb.messages EXCEPT ![rb.index] = msg],
               !.index    = (rb.index + 1) % rb.size]

\* the loop of GetAll: for i := 0; i < rb.size; i++
RECURSIVE GetAllLoop(_, _, _)
GetAllLoop(rb, i, result) ==
    IF i < rb.size
    THEN LET idx == (rb.index + i) % rb.size
         IN  GetAllLoop(rb, i + 1,
                        IF ~IsZero(rb.messages[idx].Timestamp)
                        THEN Append(result, rb.messages[idx])
                        ELSE result)
    ELSE result

GetAll(rb) == GetAllLoop(rb, 0, <<>>)

\* the loop of GetLast: for i := n - 1; i >= 0; i--, each hit put in FRONT
RECURSIVE GetLastLoop(_, _, _)
GetLastLoop(rb, i, result) ==
    IF i >= 0
    THEN LET idx == (rb.index - 1 - i + rb.size) % rb.size
         IN  GetLastLoop(rb, i - 1,
                         IF ~IsZero(rb.messages[idx].Timestamp)
                         THEN <<rb.messages[idx]>> \o result
                         ELSE result)
    ELSE result

GetLast(rb, n) ==
    LET m == IF n > rb.size THEN rb.size ELSE n
    IN  GetLastLoop(rb, m - 1, <<>>)

NoRead == [op |-> "none", n |-> 0, result |-> <<>>]

(***************************************************************************)
(* Client: the struct, its channels and its socket                         *)
(***************************************************************************)
\* the connections a run may create
MaxConns == 2

ConnIds == 1..MaxConns

\* the goroutines that call into the App or the Client
Procs == {"p1", "p2"}

\* the caller of the specifications whose commands come one after the other
Callers == {"p1"}

\* the size of each delivery channel: make(chan ..., 10)
ChanCap == 10

\* main.go's bufferSize (256 by default), scaled down
bufferSize == 2

\* the lines one session may carry that parse to a Message / to a reward
MaxMsgs == 11

MaxRewards == 1

ChanNames == {"message", "reward", "error"}

MakeChan(cap) == [buf |-> <<>>, cap |-> cap, closed |-> FALSE, closes |-> 0]

NewClient(channel, size) ==
    [channel       |-> channel,
     conn          |-> "nil",
     messageBuffer |-> NewRingBuffer(size),
     chans         |-> [ch \in ChanNames |-> MakeChan(ChanCap)],
     stopChan      |-> [closed |-> FALSE, closes |-> 0],
     connected     |-> FALSE,
     stopped       |-> FALSE]

\* the session: closed = this end has called Close; nMsg, nRew = the lines
\* it has carried so far that parse to a Message / carry a reward tag
NewSocket == [closed |-> FALSE, nMsg |-> 0, nRew |-> 0]

\* a line as listen branches on it
LineKinds ==
    [ping : {TRUE}, reward : {FALSE}, privmsg : {FALSE}, parses : {FALSE}]
    \cup [ping : {FALSE}, reward : BOOLEAN, privmsg : {FALSE}, parses : {FALSE}]
    \cup [ping : {FALSE}, reward : BOOLEAN, privmsg : {TRUE}, parses : BOOLEAN]

NoLine == [ping |-> FALSE, reward |-> FALSE, privmsg |-> FALSE, parses |-> FALSE]

NoItem == Message(0, <<>>)

\* what a PRIVMSG line carries: its text and the value of its emotes tag
Body(content, emotesTag) == [Content |-> content, emotesTag |-> emotesTag]

NoBody == Body(<<>>, <<>>)

\* the lines of a remote that only ever says "m"
PlainBodies == {Body(<<"m">>, <<>>)}

\* exit: why the loop ended ("stop", "error", "eof"); delivered:
\* safeSendError queued the error; text: the body of the line in hand;
\* added: the Messages this goroutine has given to messageBuffer.Add
NoListen ==
    [pc |-> "none", ch |-> "none", reader |-> "nil", line |-> NoLine,
     text |-> NoBody, item |-> NoItem, exit |-> "none", delivered |-> FALSE,
     added |-> <<>>]

\* close(ch): a second close of a channel panics
CloseChan(ch) == [ch EXCEPT !.closed = TRUE, !.closes = @ + 1]

(***************************************************************************)
(* Client.Connect, Client.Start, Client.Stop                               *)
(***************************************************************************)
\* what Connect does to the struct once the dial has succeeded
Connect(c) == [c EXCEPT !.conn = "sock", !.connected = TRUE, !.stopped = FALSE]

\* Stop, Client.mu held: the flags, c.conn.Close() and c.conn = nil
StopFlags(c) == [c EXCEPT !.stopped = TRUE, !.connected = FALSE, !.conn = "nil"]

\* close(c.stopChan)
StopSignal(c) == [c EXCEPT !.stopChan = CloseChan(@)]

\* Stop after the sleep: the three delivery channels are closed
StopCloseChans(c) ==
    [c EXCEPT !.chans = [ch \in ChanNames |-> CloseChan(@[ch])]]

\* a bug Stop could have: the stopped flag is not looked at
AlreadyStoppedNever(c) == FALSE

\* if c.stopped { return }
AlreadyStopped(c) == c.stopped

\* Stop by caller p, up to c.conn = nil: it returns at once when the flag
\* is set, and otherwise keeps Client.mu until it returns
StopBegin(id, p) ==
    /\ mu[id] = "none"
    /\ IF AlreadyStopped(client[id])
       THEN UNCHANGED <<client, mu, socket>>
       ELSE /\ client' = [client EXCEPT ![id] = StopFlags(@)]
            /\ socket' = [socket EXCEPT ![id].closed =
                             IF client[id].conn # "nil" THEN TRUE ELSE @]
            /\ mu' = [mu EXCEPT ![id] = p]
    /\ UNCHANGED panic

\* Stop: close(c.stopChan), after which it sleeps
StopClose(id, p) ==
    /\ mu[id] = p
    /\ IF client[id].stopChan.closed
       THEN /\ panic' = "close of closed channel"
            /\ UNCHANGED client
       ELSE /\ client' = [client EXCEPT ![id] = StopSignal(@)]
            /\ UNCHANGED panic
    /\ UNCHANGED <<mu, socket>>

\* Stop after time.Sleep: the delivery channels are closed and Client.mu is
\* released on return
StopEnd(id, p) ==
    /\ mu[id] = p
    /\ IF \E ch \in ChanNames : client[id].chans[ch].closed
       THEN /\ panic' = "close of closed channel"
            /\ UNCHANGED <<client, mu>>
       ELSE /\ client' = [client EXCEPT ![id] = StopCloseChans(@)]
            /\ mu' = [mu EXCEPT ![id] = "none"]
            /\ UNCHANGED panic
    /\ UNCHANGED socket

(***************************************************************************)
(* Client.listen and the safe-send functions.  A step of the goroutine     *)
(* ends where it next reads or writes what another goroutine can touch:    *)
(* c.conn, c.mu, c.stopChan, a delivery channel, the socket.               *)
(***************************************************************************)
Running == panic = "none"

\* what a listen step leaves alone
ListenFrame ==
    /\ out' = <<>>
    /\ UNCHANGED <<rbVars, emo, prs, mon, fan, conns, fwd, life, app, appMu, proc>>

\* a bug the select could have: the send is taken though the buffer is full
SendReadyAlways(chan) == TRUE

\* a send case of a select can proceed: room in the buffer, or the channel
\* is closed (and the send panics)
SendReady(chan) == chan.closed \/ Len(chan.buf) < chan.cap

\* a bug the channel could have: the newest item is handed out first
EnqueueFront(chan, item) == [chan EXCEPT !.buf = <<item>> \o @]

Enqueue(chan, item) == [chan EXCEPT !.buf = Append(@, item)]

\* listen from `if strings.Contains(data, "PRIVMSG")` on, for line k:
\* parsePrivMsg, messageBuffer.Add and the call of safeSendMessage, or the
\* next turn of the loop.  The result is the goroutine and the RingBuffer.
PrivMsg(l, rb, k, msg) ==
    IF k.privmsg /\ k.parses
    THEN [l  |-> [l EXCEPT !.pc = "flag", !.ch = "message", !.item = msg,
                           !.line = NoLine, !.text = NoBody,
                           !.added = Append(@, msg)],
          rb |-> Add(rb, msg)]
    ELSE [l  |-> [l EXCEPT !.pc = "select", !.ch = "none", !.item = NoItem,
                           !.line = NoLine, !.text = NoBody],
          rb |-> rb]

\* where listen goes on once the safe-send for channel ch has returned
AfterSend(l, rb, ch, msg) ==
    IF ch = "error"
    THEN [l |-> [l EXCEPT !.pc = "defer", !.ch = "none", !.item = NoItem], rb |-> rb]
    ELSE IF ch = "reward"
    THEN PrivMsg(l, rb, l.line, msg)
    ELSE [l |-> [l EXCEPT !.pc = "select", !.ch = "none", !.item = NoItem], rb |-> rb]

\* scanner := bufio.NewScanner(c.conn): c.conn is read with no lock held
ListenScanner(id) ==
    /\ Running
    /\ listen[id].pc = "scanner"
    /\ listen' = [listen EXCEPT ![id].pc = "select", ![id].reader = client[id].conn]
    /\ UNCHANGED <<client, mu, socket, panic>>
    /\ ListenFrame

\* select { case <-c.stopChan: return; default: ... }
ListenSelect(id) ==
    /\ Running
    /\ listen[id].pc = "select"
    /\ listen' = [listen EXCEPT
                    ![id].pc = IF client[id].stopChan.closed THEN "defer" ELSE "scan",
                    ![id].exit = IF client[id].stopChan.closed THEN "stop" ELSE @]
    /\ UNCHANGED <<client, mu, socket, panic>>
    /\ ListenFrame

\* scanner.Scan() on a scanner made from a nil c.conn
ListenScanNil(id) ==
    /\ Running
    /\ listen[id].pc = "scan"
    /\ listen[id].reader = "nil"
    /\ panic' = "nil conn"
    /\ UNCHANGED <<client, mu, socket, listen>>
    /\ ListenFrame

\* scanner.Scan() returns a line k with one of the bodies, and listen runs
\* on to its next shared access: the PONG write, a safe-send, or the top of
\* the loop
ListenScanText(id, maxMsgs, maxRewards, bodies) ==
    /\ Running
    /\ listen[id].pc = "scan"
    /\ listen[id].reader # "nil"
    /\ \E k \in LineKinds, body \in bodies :
         LET isMsg == k.privmsg /\ k.parses
             nMsg  == socket[id].nMsg + (IF isMsg THEN 1 ELSE 0)
             nRew  == socket[id].nRew + (IF k.reward THEN 1 ELSE 0)
             next  == PrivMsg(listen[id], client[id].messageBuffer, k,
                              TaggedMessage(nMsg, body.Content, body.emotesTag))
         IN  /\ nMsg <= maxMsgs
             /\ nRew <= maxRewards
             /\ socket' = [socket EXCEPT ![id].nMsg = nMsg, ![id].nRew = nRew]
             /\ IF k.ping
                THEN /\ listen' = [listen EXCEPT ![id].pc = "pong"]
                     /\ UNCHANGED client
                ELSE IF k.reward
                THEN /\ listen' = [listen EXCEPT
                           ![id].pc = "flag", ![id].ch = "reward", ![id].line = k,
                           ![id].text = body,
                           ![id].item = Message(nRew, <<"r">>)]
                     /\ UNCHANGED client
                ELSE /\ listen' = [listen EXCEPT ![id] = next.l]
                     /\ client' = [client EXCEPT ![id].messageBuffer = next.rb]
    /\ UNCHANGED <<mu, panic>>
    /\ ListenFrame

\* the same for a remote whose PRIVMSG lines all say "m"
ListenScanLine(id, maxMsgs, maxRewards) ==
    ListenScanText(id, maxMsgs, maxRewards, PlainBodies)

\* scanner.Scan() fails with a read error, which the network may cause when
\* `fails` and this end causes by closing the socket: safeSendError is called
ListenScanError(id, fails) ==
    /\ Running
    /\ listen[id].pc = "scan"
    /\ listen[id].reader # "nil"
    /\ fails \/ socket[id].closed
    /\ listen' = [listen EXCEPT ![id].pc = "flag", ![id].ch = "error",
                                ![id].item = Message(0, <<"e">>), ![id].exit = "error"]
    /\ UNCHANGED <<client, mu, socket, panic>>
    /\ ListenFrame

\* scanner.Scan() fails on the remote's orderly close: scanner.Err() is nil
ListenScanEOF(id) ==
    /\ Running
    /\ listen[id].pc = "scan"
    /\ listen[id].reader # "nil"
    /\ ~socket[id].closed
    /\ listen' = [listen EXCEPT ![id].pc = "defer", ![id].exit = "eof"]
    /\ UNCHANGED <<client, mu, socket, panic>>
    /\ ListenFrame

\* fmt.Fprintln(c.conn, "PONG :tmi.twitch.tv"): c.conn is read with no lock
ListenPong(id) ==
    /\ Running
    /\ listen[id].pc = "pong"
    /\ IF client[id].conn = "nil"
       THEN /\ panic' = "nil conn"
            /\ UNCHANGED listen
       ELSE /\ listen' = [listen EXCEPT ![id].pc = "select"]
            /\ UNCHANGED panic
    /\ UNCHANGED <<client, mu, socket>>
    /\ ListenFrame

\* safeSend*: c.mu.RLock(); stopped := c.stopped; c.mu.RUnlock()
SafeSendFlag(id) ==
    /\ Running
    /\ listen[id].pc = "flag"
    /\ mu[id] = "none"
    /\ LET next == AfterSend(listen[id], client[id].messageBuffer, listen[id].ch,
                             TaggedMessage(socket[id].nMsg, listen[id].text.Content,
                                           listen[id].text.emotesTag))
       IN  IF client[id].stopped
           THEN /\ listen' = [listen EXCEPT ![id] = next.l]
                /\ client' = [client EXCEPT ![id].messageBuffer = next.rb]
           ELSE /\ listen' = [listen EXCEPT ![id].pc = "send"]
                /\ UNCHANGED client
    /\ UNCHANGED <<mu, socket, panic>>
    /\ ListenFrame

\* safeSend*: select { case ch <- item: ; case <-c.stopChan: ; default: }
\* with the send case taken
SafeSendSend(id) ==
    /\ Running
    /\ listen[id].pc = "send"
    /\ LET ch   == listen[id].ch
           chan == client[id].chans[ch]
           next == AfterSend([listen[id] EXCEPT !.delivered = (ch = "error") \/ @],
                             client[id].messageBuffer, ch,
                             TaggedMessage(socket[id].nMsg, listen[id].text.Content,
                                           listen[id].text.emotesTag))
       IN  /\ SendReady(chan)
           /\ IF chan.closed
              THEN /\ panic' = "send on closed channel"
                   /\ UNCHANGED <<client, listen>>
              ELSE /\ client' = [client EXCEPT
                         ![id].chans[ch] = Enqueue(@, listen[id].item),
                         ![id].messageBuffer = next.rb]
                   /\ listen' = [listen EXCEPT ![id] = next.l]
                   /\ UNCHANGED panic
    /\ UNCHANGED <<mu, socket>>
    /\ ListenFrame

\* the same select with the stop case taken (stopChan is closed), or the
\* default (no case can proceed: the channel is full): the item is dropped
SafeSendDrop(id) ==
    /\ Running
    /\ listen[id].pc = "send"
    /\ LET ch   == listen[id].ch
           next == AfterSend(listen[id], client[id].messageBuffer, ch,
                             TaggedMessage(socket[id].nMsg, listen[id].text.Content,
                                           listen[id].text.emotesTag))
       IN  /\ client[id].stopChan.closed \/ ~SendReady(client[id].chans[ch])
           /\ listen' = [listen EXCEPT ![id] = next.l]
           /\ client' = [client EXCEPT ![id].messageBuffer = next.rb]
    /\ UNCHANGED <<mu, socket, panic>>
    /\ ListenFrame

\* the deferred function of listen
ListenDefer(id) ==
    /\ Running
    /\ listen[id].pc = "defer"
    /\ mu[id] = "none"
    /\ client' = [client EXCEPT ![id].connected = FALSE]
    /\ socket' = [socket EXCEPT ![id].closed =
                     IF client[id].conn # "nil" THEN TRUE ELSE @]
    /\ listen' = [listen EXCEPT ![id].pc = "done"]
    /\ UNCHANGED <<mu, panic>>
    /\ ListenFrame

(***************************************************************************)
(* App: the struct, ChannelConnection, forwardMessages                     *)
(***************************************************************************)
Channels == {"#a", "#b"}

\* strings.TrimPrefix(channelName, "#")
TrimHash(channelName) ==
    CASE channelName = "#a" -> "a" [] channelName = "#b" -> "b" [] OTHER -> channelName

NewConn(channel) ==
    [channel |-> channel, messages |-> <<>>, viewerCount |-> 0,
     isConnected |-> FALSE, cancelled |-> FALSE]

\* connections maps a channel to its connection id, 0 when it has no entry
\* the startLiveStatusMonitoring goroutine: names = what a.channels held
\* when the range over it began, i = the index the range is at, channel and
\* current = the locals of the iteration, ticks = the ticks received
NoStatus ==
    [pc |-> "none", i |-> 0, names |-> <<>>, channel |-> "", current |-> FALSE,
     ticks |-> 0]

\* channels holds the names without the "#" (channels_map is empty here);
\* liveStatuses is "none" where the map has no entry
NewApp ==
    [activeChannel |-> "",
     connections   |-> [c \in Channels |-> 0],
     channels      |-> <<>>,
     liveStatuses  |-> [name \in {TrimHash(c) : c \in Channels} |-> "none"],
     status        |-> NoStatus]

\* stored: the messages this goroutine has appended to conn.messages;
\* shown: the messages it has surfaced as new-message or highlight-channel
NoFwd == [pc |-> "none", item |-> NoItem, stored |-> <<>>, shown |-> <<>>]

\* no call of parsePrivMsg is under way; prev is what the last call that
\* returned a Message was given and gave
NoPrev == [op |-> "none"]

NoParse == [op |-> "none", prev |-> NoPrev]

\* outer: the command that called the one under way and waits for its
\* return, with the local it still needs
NoOuter == [cmd |-> "none", isLive |-> FALSE]

ProcIdle == [pc |-> "idle", cmd |-> "none", channel |-> "", id |-> 0, outer |-> NoOuter]

\* what ConnectToAllChannels returns: nil, or the error with its list
NilResult == [ok |-> TRUE, failures |-> <<>>]

\* ConnectToAllChannels: todo = the channels still to launch, workers = the
\* goroutines it has started that have not returned, errors and successes
\* = its two channels, closed = wg.Wait() is over and both are closed
NoFan ==
    [pc |-> "idle", configured |-> <<>>, todo |-> <<>>, workers |-> {},
     errors |-> <<>>, successes |-> <<>>, closed |-> FALSE,
     connectionErrors |-> <<>>, successfulConnections |-> <<>>,
     result |-> NilResult]

Event(name, channel, data) == [name |-> name, channel |-> channel, data |-> data]

\* config.txt's filter keywords
filterList == {<<"B">>}

ToLower(ch) ==
    CASE ch = "A" -> "a" [] ch = "B" -> "b" [] ch = "M" -> "m" [] OTHER -> ch

LowerSeq(t) == [i \in 1..Len(t) |-> ToLower(t[i])]

\* strings.Contains
Contains(t, k) ==
    \E i \in 0..(Len(t) - Len(k)) : \A j \in 1..Len(k) : t[i + j] = k[j]

containsAny(text, keywords) ==
    \E k \in keywords : Contains(LowerSeq(text), LowerSeq(k))

MsgData(msg) ==
    [Timestamp |-> msg.Timestamp, Content |-> msg.Content, isHighlighted |-> FALSE]

\* a bug forwardMessages could have: at capacity the new entry is dropped
AppendHistoryKeepOld(messages, msgData) ==
    IF Len(messages) >= bufferSize THEN messages ELSE Append(messages, msgData)

\* conn.messages = append(conn.messages, msgData), the oldest dropped
AppendHistory(messages, msgData) ==
    LET all == Append(messages, msgData)
    IN  IF Len(all) > bufferSize THEN Tail(all) ELSE all

\* a receive case can proceed: an item is buffered, or the channel is closed
RecvReady(chan) == Len(chan.buf) > 0 \/ chan.closed

Dequeue(chan) == [chan EXCEPT !.buf = Tail(@)]

(***************************************************************************)
(* App.monitorViewerCount: mon[id] is "none" (not started), "run" (at the  *)
(* select), "poll" (in GetViewerCount, the request sent and no answer      *)
(* yet), "emit" (the count stored, before connectionsMu.RLock) or "done"   *)
(***************************************************************************)
\* what the remote may answer
ViewerCounts == {5}

MonFrame ==
    UNCHANGED <<rbVars, emo, prs, fan, client, mu, socket, listen, fwd, life,
                app, appMu, proc, panic>>

\* case <-ctx.Done(): return
MonCancelled(id) ==
    /\ Running
    /\ mon[id] = "run"
    /\ conns[id].cancelled
    /\ mon' = [mon EXCEPT ![id] = "done"]
    /\ out' = <<>>
    /\ UNCHANGED conns
    /\ MonFrame

\* case <-ticker.C: GetViewerCount sends its request; its http.Client has
\* no Timeout and the request no context
MonTick(id) ==
    /\ Running
    /\ mon[id] = "run"
    /\ mon' = [mon EXCEPT ![id] = "poll"]
    /\ out' = <<>>
    /\ UNCHANGED conns
    /\ MonFrame

\* the remote answers with a count: conn.viewerCount = count
MonReply(id, count) ==
    /\ Running
    /\ mon[id] = "poll"
    /\ conns' = [conns EXCEPT ![id].viewerCount = count]
    /\ mon' = [mon EXCEPT ![id] = "emit"]
    /\ out' = <<>>
    /\ MonFrame

\* the request fails or the answer does not decode: err != nil
MonFailed(id) ==
    /\ Running
    /\ mon[id] = "poll"
    /\ mon' = [mon EXCEPT ![id] = "run"]
    /\ out' = <<>>
    /\ UNCHANGED conns
    /\ MonFrame

\* isActive is read under connectionsMu.RLock, then the signal is emitted
MonEmit(id) ==
    /\ Running
    /\ mon[id] = "emit"
    /\ appMu.w = "none"
    /\ mon' = [mon EXCEPT ![id] = "run"]
    /\ out' = IF app.activeChannel = conns[id].channel
              THEN <<Event("viewer-count", conns[id].channel,
                           <<conns[id].viewerCount>>)>>
              ELSE <<>>
    /\ UNCHANGED conns
    /\ MonFrame

(***************************************************************************)
(* emotes.go: the catalogs and findEmote                                   *)
(***************************************************************************)
\* the six catalogs in the order findEmote asks them; the channel-scoped
\* ones are keyed by the channel name without its #
Layers == <<"channel7TV", "global7TV", "channelBTTV", "globalBTTV",
            "channelFFZ", "globalFFZ">>

ChannelLayers == {"channel7TV", "channelBTTV", "channelFFZ"}

\* the channel whose catalogs are loaded, and the names they may hold
CatalogChannel == "a"

\* a Go string is the sequence of its runes
Kappa == <<"K", "a", "p", "p", "a">>

EmoteNames == {Kappa}

\* EmoteInfo; a catalog entry carries the file its loader wrote
EmoteInfo(id, name, url, filePath, start, end) ==
    [ID |-> id, Name |-> name, URL |-> url, FilePath |-> filePath,
     Start |-> start, End |-> end]

ZeroEmote == EmoteInfo(<<>>, <<>>, <<>>, "", 0, 0)

\* the entry of catalog `layer` for `word`: the loaders give every entry
\* their own ID and URL and the path of the file they have written
Entry(layer, word) == EmoteInfo(<<layer>>, word, <<layer, "url">>, "file", 0, 0)

NoCall == [op |-> "none"]

\* the goroutines that populate a catalog
Fetchers == {"Fetch7TVEmotes", "Fetch7TVGlobalEmotes", "FetchBTTVChannelEmotes"}

\* no findEmote is under way step by step
NoLook == [pc |-> "none", channelName |-> "", word |-> <<>>, i |-> 0, found |-> FALSE]

\* catalogs: for each layer the names it holds; cache: emoteCache.emotes,
\* id -> EmoteInfo; files: the emote files on disk; downloads: the
\* downloadEmote goroutines that have been started and not run; locks: the
\* sync.RWMutex of each layer, its writer and its readers; fetch: where
\* each Fetch goroutine stands; look: where a findEmote stands
NoEmo ==
    [catalogs  |-> [l \in {Layers[i] : i \in 1..Len(Layers)} |-> {}],
     cache     |-> <<>>,
     files     |-> {},
     downloads |-> {},
     call      |-> NoCall,
     locks     |-> [l \in {Layers[i] : i \in 1..Len(Layers)} |->
                       [w |-> "none", r |-> {}]],
     fetch     |-> [f \in Fetchers |-> "none"],
     look      |-> NoLook]

\* the firstRun block of forwardMessages: channels[name] = Channel{...}
\* with a new empty Emotes map
Replaced(catalogs, channelName) ==
    IF TrimHash(channelName) = CatalogChannel
    THEN [catalogs EXCEPT !["channel7TV"] = {}]
    ELSE catalogs

\* catalog `layer` holds `word` for the channel asked about
Holds(catalogs, layer, channelName, word) ==
    /\ word \in catalogs[layer]
    /\ layer \in ChannelLayers => channelName = CatalogChannel

\* a bug findEmote could have: the layers are asked globals first
FindFromGlobals(catalogs, channelName, word, i) ==
    LET order == <<2, 1, 4, 3, 6, 5>>
        hit   == {j \in 1..6 : Holds(catalogs, Layers[order[j]], TrimHash(channelName), word)}
    IN  IF hit = {}
        THEN [e |-> ZeroEmote, found |-> FALSE]
        ELSE [e |-> Entry(Layers[order[CHOOSE j \in hit : \A k \in hit : j <= k]], word),
              found |-> TRUE]

\* findEmote from its i-th lookup on
RECURSIVE FindFrom(_, _, _, _)
FindFrom(catalogs, channelName, word, i) ==
    IF i > Len(Layers)
    THEN [e |-> ZeroEmote, found |-> FALSE]
    ELSE IF Holds(catalogs, Layers[i], TrimHash(channelName), word)
    THEN [e |-> Entry(Layers[i], word), found |-> TRUE]
    ELSE FindFrom(catalogs, channelName, word, i + 1)

findEmote(catalogs, channelName, word) == FindFrom(catalogs, channelName, word, 1)

(***************************************************************************)
(* emotes.go: ParseEmotes                                                  *)
(***************************************************************************)
\* strings.Split(s, sep) for a one-rune separator
RECURSIVE Split(_, _)
Split(s, sep) ==
    LET at == {i \in 1..Len(s) : s[i] = sep}
    IN  IF at = {}
        THEN <<s>>
        ELSE LET i == CHOOSE j \in at : \A k \in at : j <= k
             IN  <<SubSeq(s, 1, i - 1)>> \o Split(SubSeq(s, i + 1, Len(s)), sep)

Digits == <<"0", "1", "2", "3", "4", "5", "6", "7", "8", "9">>

DigitValue(c) == (CHOOSE d \in 1..Len(Digits) : Digits[d] = c) - 1

RECURSIVE Decimal(_)
Decimal(s) ==
    IF s = <<>> THEN 0
    ELSE 10 * Decimal(SubSeq(s, 1, Len(s) - 1)) + DigitValue(s[Len(s)])

\* strconv.Atoi on what is left between two "-": an optional + and digits
Atoi(s) ==
    LET body == IF s # <<>> /\ s[1] = "+" THEN Tail(s) ELSE s
    IN  IF body = <<>> \/ \E i \in 1..Len(body) : \A d \in 1..Len(Digits) : body[i] # Digits[d]
        THEN [n |-> 0, err |-> TRUE]
        ELSE [n |-> Decimal(body), err |-> FALSE]

\* the (emoteID, posStr) pairs the two outer loops of ParseEmotes visit
RECURSIVE Positions(_, _)
Positions(emoteID, posStrs) ==
    IF posStrs = <<>> THEN <<>>
    ELSE <<[emoteID |-> emoteID, posStr |-> Head(posStrs)]>>
             \o Positions(emoteID, Tail(posStrs))

RECURSIVE Groups(_)
Groups(emoteGroups) ==
    IF emoteGroups = <<>> THEN <<>>
    ELSE LET parts == Split(Head(emoteGroups), ":")
         IN  (IF Len(parts) # 2 THEN <<>>
              ELSE Positions(parts[1], Split(parts[2], ",")))
                 \o Groups(Tail(emoteGroups))

\* the one range check of ParseEmotes: `end >= len(contentRunes)` skips
InBounds(end, contentRunes) == end < Len(contentRunes)

\* the body of the inner loop for the pairs from the i-th on; the slice
\* expression contentRunes[start : end+1] panics when start > end+1 or
\* end+1 > cap(contentRunes), and ParseEmotes is left at once
RECURSIVE NativeFrom(_, _, _)
NativeFrom(pairs, contentRunes, i) ==
    IF i > Len(pairs) THEN [emotes |-> <<>>, panic |-> FALSE]
    ELSE LET rangeParts == Split(pairs[i].posStr, "-")
             start == Atoi(rangeParts[1])
             end   == Atoi(rangeParts[2])
             rest  == NativeFrom(pairs, contentRunes, i + 1)
         IN  IF Len(rangeParts) # 2 THEN rest
             ELSE IF start.err \/ end.err THEN rest
             ELSE IF ~InBounds(end.n, contentRunes) THEN rest
             ELSE IF start.n > end.n + 1 \/ end.n + 1 > Len(contentRunes)
             THEN [emotes |-> <<>>, panic |-> TRUE]
             ELSE [emotes |-> <<EmoteInfo(pairs[i].emoteID,
                                          SubSeq(contentRunes, start.n + 1, end.n + 1),
                                          <<"cdn">> \o pairs[i].emoteID,
                                          "", start.n, end.n)>> \o rest.emotes,
                   panic  |-> rest.panic]

\* the Twitch emotes of a message: the first half of ParseEmotes
Native(emotesTag, content) ==
    IF emotesTag = <<>> THEN [emotes |-> <<>>, panic |-> FALSE]
    ELSE NativeFrom(Groups(Split(emotesTag, "/")), content, 1)

\* a bug the marking could have: only the first rune of a range is marked
CoveredFirstOnly(emotes, n) ==
    {i \in 0..(n - 1) : \E k \in 1..Len(emotes) :
        emotes[k].Start = i /\ i <= emotes[k].End}

\* covered[i], for the n runes of the content (rune positions count from 0)
Covered(emotes, n) ==
    {i \in 0..(n - 1) : \E k \in 1..Len(emotes) :
        emotes[k].Start <= i /\ i <= emotes[k].End}

\* the word loop of ParseEmotes from rune `current` on: the third-party
\* emotes it appends and the words it hands to findEmote
RECURSIVE Words(_, _, _, _, _)
Words(catalogs, channel, runes, covered, current) ==
    LET n         == Len(runes)
        Skip(i)   == i < n /\ (runes[i + 1] = " " \/ i \in covered)
        InWord(i) == i < n /\ runes[i + 1] # " " /\ i \notin covered
        start     == CHOOSE i \in current..n :
                         ~Skip(i) /\ \A j \in current..(i - 1) : Skip(j)
        stop      == CHOOSE i \in start..n :
                         ~InWord(i) /\ \A j \in start..(i - 1) : InWord(j)
        end       == stop - 1
        word      == SubSeq(runes, start + 1, end + 1)
        hit       == findEmote(catalogs, channel, word)
        rest      == Words(catalogs, channel, runes, covered, stop)
    IN  IF current >= n \/ start >= n
        THEN [emotes |-> <<>>, lookups |-> <<>>]
        ELSE IF ~(start < n /\ end >= start) THEN rest
        ELSE [emotes  |-> (IF hit.found
                           THEN <<EmoteInfo(hit.e.ID, word, hit.e.URL,
                                            hit.e.FilePath, start, end)>>
                           ELSE <<>>) \o rest.emotes,
              lookups |-> <<[word |-> word, Start |-> start, End |-> end]>>
                              \o rest.lookups]

\* sort.Slice by Positions[0].Start; it is not a stable sort, so every
\* order of the same emotes with ascending Start is a possible result
SortedByStart(emotes) ==
    LET n == Len(emotes)
    IN  {[i \in 1..n |-> emotes[p[i]]] :
            p \in {q \in [1..n -> 1..n] :
                      /\ \A i, j \in 1..n : i # j => q[i] # q[j]
                      /\ \A i, j \in 1..n :
                            i < j => emotes[q[i]].Start <= emotes[q[j]].Start}}

\* ParseEmotes up to its sort: the locals it has built, or the panic
ParseEmotes(catalogs, msg) ==
    LET native  == Native(msg.emotesTag, msg.Content)
        covered == Covered(native.emotes, Len(msg.Content))
        third   == Words(catalogs, msg.Channel, msg.Content, covered, 0)
    IN  IF native.panic
        THEN [panic |-> TRUE, native |-> <<>>, covered |-> {},
              third |-> <<>>, lookups |-> <<>>]
        ELSE [panic |-> FALSE, native |-> native.emotes, covered |-> covered,
              third |-> third.emotes, lookups |-> third.lookups]

\* the contents and the values of the emotes tag the messages carry
EmoteContents ==
    {<<"K", "a", "p", "p", "a", " ", "t", "e", "s", "t">>,
     <<"w", " ", "K", "a", "p", "p", "a">>,
     <<"K", "a", "p", "p", "a">>}

EmoteTags ==
    {<<>>,
     <<"2", "5", ":", "0", "-", "4">>,
     <<"2", "5", ":", "0", "-", "4", ",", "6", "-", "9">>,
     <<"2", "5", ":", "0", "-", "2">>,
     <<"2", "5", ":", "6", "-", "9", "/", "1", "9", "0", "2", ":", "0", "-", "4">>,
     <<"2", "5", ":", "0", "-", "1", "0">>,
     <<"2", "5", ":", "9", "-", "1", "2">>,
     <<"2", "5", ":", "4", "-", "2">>,
     <<"2", "5", ":", "3", "-", "2">>,
     <<"2", "5", ":", "x", "-", "4">>,
     <<"2", "5", ":", "0", "-", "4", "-", "5">>,
     <<"2", "5">>,
     <<"2", "5", ":", "0", "-", "4", ":", "9">>,
     <<"2", "5", ":", "+", "0", "-", "4">>,
     <<"3", "0", ":", "0", "-", "4", "/", "2", "5", ":", "0", "-", "4">>}

EmoteChannels == {"#a", "#b"}

EmoteMsgs ==
    {[Channel |-> c, Content |-> t, emotesTag |-> g] :
        c \in EmoteChannels, t \in EmoteContents, g \in EmoteTags}

(***************************************************************************)
(* App.forwardMessages                                                     *)
(***************************************************************************)
\* what a forwardMessages step leaves alone
FwdFrame ==
    UNCHANGED <<rbVars, prs, mon, fan, mu, socket, listen, life, app, appMu, proc, panic>>

\* msg as ParseEmotes reads it in the goroutine of a connection
EmoteMsg(channel, msg) ==
    [Channel |-> channel, Content |-> msg.Content, emotesTag |-> msg.emotesTag]

\* the downloadEmote goroutines ProcessMessageEmotes starts for emotes
Started(emotes, channelName) ==
    {[emote |-> emotes[k], channelName |-> channelName] :
        k \in {i \in 1..Len(emotes) : emotes[i].FilePath = ""}}

\* case <-ctx.Done(): return
FwdCancelled(id) ==
    /\ Running
    /\ fwd[id].pc = "run"
    /\ conns[id].cancelled
    /\ fwd' = [fwd EXCEPT ![id].pc = "done"]
    /\ out' = <<>>
    /\ UNCHANGED <<client, conns, emo>>
    /\ FwdFrame

\* case msg, ok := <-conn.client.MessageChannel(): up to conn.mu.Unlock().
\* ProcessMessageEmotes and ParseEmotes run first; a panic of theirs is
\* recovered by the deferred function and the goroutine ends. The lines
\* carry no room-id tag: the firstRun block replaces the 7TV catalog of the
\* channel and starts no Fetch goroutine (GoChannelFetch is that block on a
\* message with a room-id)
FwdMessage(id) ==
    /\ Running
    /\ fwd[id].pc = "run"
    /\ RecvReady(client[id].chans["message"])
    /\ out' = <<>>
    /\ IF Len(client[id].chans["message"].buf) = 0
       THEN /\ fwd' = [fwd EXCEPT ![id].pc = "done"]
            /\ UNCHANGED <<client, conns, emo>>
       ELSE LET msg == Head(client[id].chans["message"].buf)
                r   == ParseEmotes(emo.catalogs, EmoteMsg(conns[id].channel, msg))
            IN  /\ client' = [client EXCEPT ![id].chans["message"] = Dequeue(@)]
                /\ IF r.panic
                   THEN /\ fwd' = [fwd EXCEPT ![id].pc = "done"]
                        /\ UNCHANGED <<conns, emo>>
                   ELSE /\ emo' = [emo EXCEPT
                              !.downloads = @ \cup Started(r.native \o r.third,
                                                           conns[id].channel),
                              !.catalogs = Replaced(@, conns[id].channel)]
                        /\ conns' = [conns EXCEPT
                              ![id].messages = AppendHistory(@, MsgData(msg))]
                        /\ fwd' = [fwd EXCEPT ![id].pc = "emitMessage",
                                              ![id].item = msg,
                                              ![id].stored = Append(@, msg)]
    /\ FwdFrame

\* case reward, ok := <-conn.client.RewardChannel(): up to the read lock
FwdReward(id) ==
    /\ Running
    /\ fwd[id].pc = "run"
    /\ RecvReady(client[id].chans["reward"])
    /\ out' = <<>>
    /\ UNCHANGED <<conns, emo>>
    /\ IF Len(client[id].chans["reward"].buf) = 0
       THEN /\ fwd' = [fwd EXCEPT ![id].pc = "done"]
            /\ UNCHANGED client
       ELSE /\ client' = [client EXCEPT ![id].chans["reward"] = Dequeue(@)]
            /\ fwd' = [fwd EXCEPT ![id].pc = "emitReward",
                                  ![id].item = Head(client[id].chans["reward"].buf)]
    /\ FwdFrame

\* a bug forwardMessages could have: the error is logged and not surfaced
NoErrorSignal(channel) == <<>>

\* runtime.EventsEmit(a.ctx, "connection-error", {channel, error})
ErrorSignal(channel) == <<Event("connection-error", channel, <<>>)>>

\* case err, ok := <-conn.client.ErrorChannel(): the signal, then return
FwdError(id) ==
    /\ Running
    /\ fwd[id].pc = "run"
    /\ RecvReady(client[id].chans["error"])
    /\ fwd' = [fwd EXCEPT ![id].pc = "done"]
    /\ UNCHANGED <<conns, emo>>
    /\ IF Len(client[id].chans["error"].buf) = 0
       THEN /\ out' = <<>>
            /\ UNCHANGED client
       ELSE /\ client' = [client EXCEPT ![id].chans["error"] = Dequeue(@)]
            /\ out' = ErrorSignal(conns[id].channel)
    /\ FwdFrame

\* the rest of the message and reward cases: isActive is read under
\* connectionsMu.RLock, then the signal is emitted
FwdEmit(id) ==
    /\ Running
    /\ fwd[id].pc \in {"emitMessage", "emitReward"}
    /\ appMu.w = "none"
    /\ UNCHANGED <<client, emo>>
    /\ LET isActive    == app.activeChannel = conns[id].channel
           highlighted == containsAny(fwd[id].item.Content, filterList)
           n           == Len(conns[id].messages)
           msgData     == [MsgData(fwd[id].item) EXCEPT !.isHighlighted = highlighted]
           surfaced    == fwd[id].pc = "emitMessage" /\ (isActive \/ highlighted)
       IN  /\ fwd' = [fwd EXCEPT
                        ![id].pc = "run", ![id].item = NoItem,
                        ![id].shown = IF surfaced THEN Append(@, fwd[id].item) ELSE @]
           /\ IF fwd[id].pc = "emitMessage"
              THEN /\ conns' = [conns EXCEPT ![id].messages[n].isHighlighted = highlighted]
                   /\ out' = IF isActive
                             THEN <<Event("new-message", conns[id].channel, <<msgData>>)>>
                             ELSE IF highlighted
                             THEN <<Event("highlight-channel", conns[id].channel, <<msgData>>)>>
                             ELSE <<>>
              ELSE /\ UNCHANGED conns
                   /\ out' = IF isActive
                             THEN <<Event("reward-redemption", conns[id].channel,
                                          <<fwd[id].item>>)>>
                             ELSE <<>>
    /\ FwdFrame

(***************************************************************************)
(* parsePrivMsg, convertToLightIfDark, getTwitchDefaultColor.  A line is   *)
(* the sequence of its characters; positions count from 0 as in Go.        *)
(***************************************************************************)
\* the printable ASCII characters, from code 32 on (the double quote, the
\* backslash and the backtick are spelled out: no line of the model holds them)
Ascii ==
  <<" ", "!", "quote", "#", "$", "%", "&", "'", "(", ")", "*", "+", ",", "-",
    ".", "/", "0", "1", "2", "3", "4", "5", "6", "7", "8", "9", ":", ";",
    "<", "=", ">", "?", "@", "A", "B", "C", "D", "E", "F", "G", "H", "I",
    "J", "K", "L", "M", "N", "O", "P", "Q", "R", "S", "T", "U", "V", "W",
    "X", "Y", "Z", "[", "backslash", "]", "^", "_", "backtick", "a", "b", "c", "d", "e",
    "f", "g", "h", "i", "j", "k", "l", "m", "n", "o", "p", "q", "r", "s",
    "t", "u", "v", "w", "x", "y", "z", "{", "|", "}", "~">>

\* int(char)
CodePoint(c) == 31 + (CHOOSE i \in 1..Len(Ascii) : Ascii[i] = c)

\* s[from:to] and s[from:]
Slice(s, from, to) == SubSeq(s, from + 1, to)

SliceFrom(s, from) == SubSeq(s, from + 1, Len(s))

\* strings.Index(s, sub): the first position of sub in s, or -1
Index(s, sub) ==
    LET at == {i \in 0..(Len(s) - Len(sub)) :
                  \A j \in 1..Len(sub) : s[i + j] = sub[j]}
    IN  IF at = {} THEN -1 ELSE CHOOSE i \in at : \A k \in at : i <= k

HasPrefix(s, prefix) ==
    Len(s) >= Len(prefix) /\ SubSeq(s, 1, Len(prefix)) = prefix

TrimPrefix(s, prefix) ==
    IF HasPrefix(s, prefix) THEN SliceFrom(s, Len(prefix)) ELSE s

\* the loop over tags: msg.Tags as the list of the key-value pairs written
\* into the map, in order; strings.SplitN(tag, "=", 2) has two parts when
\* the tag has an =
RECURSIVE TagPairs(_)
TagPairs(tags) ==
    IF tags = <<>> THEN <<>>
    ELSE LET tag == Head(tags)
             eq  == Index(tag, <<"=">>)
         IN  (IF eq = -1 THEN <<>>
              ELSE <<[key |-> Slice(tag, 0, eq), value |-> SliceFrom(tag, eq + 1)]>>)
                 \o TagPairs(Tail(tags))

\* value, ok := msg.Tags[key]: the last pair written under the key
TagValue(pairs, key) ==
    LET at == {i \in 1..Len(pairs) : pairs[i].key = key}
    IN  IF at = {} THEN [ok |-> FALSE, value |-> <<>>]
        ELSE [ok |-> TRUE,
              value |-> pairs[CHOOSE i \in at : \A k \in at : k <= i].value]

HexDigits == <<"0", "1", "2", "3", "4", "5", "6", "7", "8", "9", "A", "B", "C", "D", "E", "F">>

HexLower == <<"0", "1", "2", "3", "4", "5", "6", "7", "8", "9", "a", "b", "c", "d", "e", "f">>

\* strconv.ParseInt(s, 16, 0) with its error dropped: an optional sign and
\* hexadecimal digits of either case; 0 when s is not such a number
HexValue(c) ==
    (CHOOSE d \in 1..16 : HexDigits[d] = c \/ HexLower[d] = c) - 1

IsHexDigit(c) == \E d \in 1..16 : HexDigits[d] = c \/ HexLower[d] = c

RECURSIVE HexNumber(_)
HexNumber(s) ==
    IF s = <<>> THEN 0
    ELSE 16 * HexNumber(SubSeq(s, 1, Len(s) - 1)) + HexValue(s[Len(s)])

ParseInt16(s) ==
    LET signed == s # <<>> /\ s[1] \in {"+", "-"}
        body   == IF signed THEN Tail(s) ELSE s
    IN  IF body = <<>> \/ \E i \in 1..Len(body) : ~IsHexDigit(body[i])
        THEN 0
        ELSE IF signed /\ s[1] = "-" THEN 0 - HexNumber(body)
        ELSE HexNumber(body)

\* the hexadecimal digits of n > 0, upper case
RECURSIVE HexOf(_)
HexOf(n) ==
    IF n = 0 THEN <<>> ELSE Append(HexOf(n \div 16), HexDigits[(n % 16) + 1])

\* fmt.Sprintf("%02X", n): sign and digits, filled with zeros to two places
Sprintf02X(n) ==
    LET digits == IF n = 0 THEN <<"0">> ELSE HexOf(IF n < 0 THEN 0 - n ELSE n)
        signed == IF n < 0 THEN <<"-">> ELSE <<>>
        fill   == IF Len(signed) + Len(digits) < 2 THEN <<"0">> ELSE <<>>
    IN  signed \o fill \o digits

\* the (r, g, b) for which 0.299*r + 0.587*g + 0.114*b is exactly 128 and
\* its float64 evaluation is 127.99999999999999
RoundedBelow128 ==
  {<<-7, 209, 65>>, <<-3, 199, 106>>, <<0, 220, -10>>, <<8, 200, 72>>,
    <<12, 190, 113>>, <<15, 211, -3>>, <<19, 201, 38>>, <<23, 191, 79>>,
    <<24, 160, 236>>, <<34, 192, 45>>, <<38, 182, 86>>, <<42, 172, 127>>,
    <<49, 183, 52>>, <<53, 173, 93>>, <<57, 163, 134>>, <<64, 174, 59>>,
    <<72, 154, 141>>, <<75, 175, 25>>, <<79, 165, 66>>, <<87, 145, 148>>,
    <<90, 166, 32>>, <<94, 156, 73>>, <<98, 146, 114>>, <<102, 136, 155>>,
    <<105, 157, 39>>, <<113, 137, 121>>, <<116, 158, 5>>,
    <<117, 127, 162>>, <<120, 148, 46>>, <<128, 128, 128>>,
    <<131, 149, 12>>, <<132, 118, 169>>, <<135, 139, 53>>,
    <<143, 119, 135>>, <<146, 140, 19>>, <<154, 120, 101>>,
    <<157, 141, -15>>, <<158, 110, 142>>, <<161, 131, 26>>,
    <<169, 111, 108>>, <<172, 132, -8>>, <<176, 122, 33>>,
    <<177, 91, 190>>, <<184, 102, 115>>, <<187, 123, -1>>,
    <<195, 103, 81>>, <<199, 93, 122>>, <<202, 114, 6>>, <<210, 94, 88>>,
    <<225, 85, 95>>, <<240, 76, 102>>, <<251, 77, 68>>, <<255, 67, 109>>}

\* 0.299*float64(r) + 0.587*float64(g) + 0.114*float64(b) < 128
IsDark(r, g, b) ==
    \/ 299 * r + 587 * g + 114 * b < 128000
    \/ <<r, g, b>> \in RoundedBelow128

\* v += int64(float64(255-v) * 0.4) when the colour is dark
Lighten(v, dark) == IF dark THEN v + ((255 - v) * 2) \div 5 ELSE v

convertToLightIfDark(hexColor) ==
    LET color == TrimPrefix(hexColor, <<"#">>)
        r     == ParseInt16(Slice(color, 0, 2))
        g     == ParseInt16(Slice(color, 2, 4))
        b     == ParseInt16(Slice(color, 4, 6))
        dark  == IsDark(r, g, b)
    IN  IF Len(color) # 6 THEN hexColor
        ELSE <<"#">> \o Sprintf02X(Lighten(r, dark))
                    \o Sprintf02X(Lighten(g, dark))
                    \o Sprintf02X(Lighten(b, dark))

\* a Go int: 64 bits, as four 16-bit limbs, the lowest first
Limb == 65536

Zero64 == <<0, 0, 0, 0>>

\* h*m + a, wrapped to 64 bits, for small m and a
MulAdd64(h, m, a) ==
    LET t1 == h[1] * m + a
        t2 == h[2] * m + t1 \div Limb
        t3 == h[3] * m + t2 \div Limb
        t4 == h[4] * m + t3 \div Limb
    IN  <<t1 % Limb, t2 % Limb, t3 % Limb, t4 % Limb>>

\* x - y, wrapped to 64 bits
Sub64(x, y) ==
    LET d1 == x[1] - y[1]
        d2 == x[2] - y[2] - (IF d1 < 0 THEN 1 ELSE 0)
        d3 == x[3] - y[3] - (IF d2 < 0 THEN 1 ELSE 0)
        d4 == x[4] - y[4] - (IF d3 < 0 THEN 1 ELSE 0)
    IN  <<d1 % Limb, d2 % Limb, d3 % Limb, d4 % Limb>>

IsNegative64(h) == h[4] >= Limb \div 2

\* hash = (hash << 5) - hash + int(char), over the characters of s
RECURSIVE HashFrom(_, _)
HashFrom(hash, s) ==
    IF s = <<>> THEN hash
    ELSE LET shifted == MulAdd64(hash, 32, 0)
             next    == MulAdd64(Sub64(shifted, hash), 1, CodePoint(Head(s)))
         IN  IF next \in Seq(0..(Limb - 1)) THEN HashFrom(next, Tail(s)) ELSE Zero64

\* func abs(n int) int: -n wraps, so abs of the least int is the least int
abs(n) == IF IsNegative64(n) THEN Sub64(Zero64, n) ELSE n

\* n % 15 in Go: the sign of the result is the sign of n (2^16 is 1 modulo
\* 15, so an unsigned value is the sum of its limbs modulo 15)
Rem15(n) ==
    IF IsNegative64(n)
    THEN LET m == Sub64(Zero64, n)
         IN  0 - ((m[1] + m[2] + m[3] + m[4]) % 15)
    ELSE (n[1] + n[2] + n[3] + n[4]) % 15

colors ==
  <<<<"#", "F", "F", "0", "0", "0", "0">>,
    <<"#", "0", "0", "0", "0", "F", "F">>,
    <<"#", "0", "0", "F", "F", "0", "0">>,
    <<"#", "B", "2", "2", "2", "2", "2">>,
    <<"#", "F", "F", "7", "F", "5", "0">>,
    <<"#", "9", "A", "C", "D", "3", "2">>,
    <<"#", "F", "F", "4", "5", "0", "0">>,
    <<"#", "2", "E", "8", "B", "5", "7">>,
    <<"#", "D", "A", "A", "5", "2", "0">>,
    <<"#", "D", "2", "6", "9", "1", "E">>,
    <<"#", "5", "F", "9", "E", "A", "0">>,
    <<"#", "1", "E", "9", "0", "F", "F">>,
    <<"#", "F", "F", "6", "9", "B", "4">>,
    <<"#", "8", "A", "2", "B", "E", "2">>,
    <<"#", "0", "0", "F", "F", "7", "F">>>>

\* strings.ToLower on ASCII
LowerAscii(s) ==
    [i \in 1..Len(s) |->
        LET k == CodePoint(s[i])
        IN  IF 65 <= k /\ k <= 90 THEN Ascii[k + 32 - 31] ELSE s[i]]

\* getTwitchDefaultColor: colors[abs(hash) % len(colors)], or the index
\* out of range panic when that index is negative
getTwitchDefaultColor(username) ==
    LET i == Rem15(abs(HashFrom(Zero64, LowerAscii(username))))
    IN  IF i < 0 THEN [panic |-> TRUE, color |-> <<>>]
        ELSE [panic |-> FALSE, color |-> colors[i + 1]]

White == <<"#", "F", "F", "F", "F", "F", "F">>

\* parsePrivMsg(data): nil, the Message, or the panic of the colour lookup
parsePrivMsg(data) ==
    LET parts        == Split(data, " ")
        tagEnd       == Index(Tail(data), <<" ">>)
        pairs        == IF HasPrefix(data, <<"@">>) /\ tagEnd # -1
                        THEN TagPairs(Split(Slice(data, 1, tagEnd + 1), ";"))
                        ELSE <<>>
        privmsgIndex == Index(data, <<" ", "P", "R", "I", "V", "M", "S", "G", " ">>)
        channelStart == privmsgIndex + 9
        channelEnd   == Index(SliceFrom(data, channelStart), <<" ", ":">>)
        messageStart == channelStart + channelEnd + 2
        displayName  == TagValue(pairs, <<"d", "i", "s", "p", "l", "a", "y", "-", "n", "a", "m", "e">>)
        userStart    == Index(data, <<":">>)
        userEnd      == Index(SliceFrom(data, userStart), <<"!">>)
        Username     == IF displayName.ok /\ displayName.value # <<>>
                        THEN displayName.value
                        ELSE IF userStart # -1 /\ userEnd # -1
                        THEN Slice(data, userStart + 1, userStart + userEnd)
                        ELSE <<>>
        userColor    == TagValue(pairs, <<"c", "o", "l", "o", "r">>)
        default      == getTwitchDefaultColor(Username)
    IN  IF Len(parts) < 4 \/ privmsgIndex = -1 \/ channelEnd = -1
        THEN [nil |-> TRUE, panic |-> FALSE]
        ELSE IF userColor.ok /\ userColor.value = <<>> /\ default.panic
        THEN [nil |-> FALSE, panic |-> TRUE]
        ELSE [nil       |-> FALSE,
              panic     |-> FALSE,
              Channel   |-> Slice(data, channelStart, channelStart + channelEnd),
              Content   |-> IF messageStart < Len(data)
                            THEN SliceFrom(data, messageStart) ELSE <<>>,
              Username  |-> Username,
              UserColor |-> IF ~userColor.ok THEN White
                            ELSE IF userColor.value # <<>>
                            THEN convertToLightIfDark(userColor.value)
                            ELSE default.color]

(***************************************************************************)
(* SpecRB: one RingBuffer of any capacity 1..MaxCap, its callers           *)
(***************************************************************************)
\* nothing created yet: the state the App is in after NewApp
InitIdle ==
    /\ client = [id \in ConnIds |-> NewClient("", bufferSize)]
    /\ mu = [id \in ConnIds |-> "none"]
    /\ socket = [id \in ConnIds |-> NewSocket]
    /\ listen = [id \in ConnIds |-> NoListen]
    /\ conns = [id \in ConnIds |-> NewConn("")]
    /\ fwd = [id \in ConnIds |-> NoFwd]
    /\ mon = [id \in ConnIds |-> "none"]
    /\ prs = NoParse
    /\ life = [id \in ConnIds |-> "free"]
    /\ app = NewApp
    /\ appMu = [w |-> "none", r |-> {}]
    /\ proc = [p \in Procs |-> ProcIdle]
    /\ out = <<>>
    /\ fan = NoFan
    /\ emo = NoEmo
    /\ panic = "none"

\* the same with the catalogs the Fetch functions have loaded by then
InitLoaded ==
    /\ client = [id \in ConnIds |-> NewClient("", bufferSize)]
    /\ mu = [id \in ConnIds |-> "none"]
    /\ socket = [id \in ConnIds |-> NewSocket]
    /\ listen = [id \in ConnIds |-> NoListen]
    /\ conns = [id \in ConnIds |-> NewConn("")]
    /\ fwd = [id \in ConnIds |-> NoFwd]
    /\ mon = [id \in ConnIds |-> "none"]
    /\ prs = NoParse
    /\ life = [id \in ConnIds |-> "free"]
    /\ app = NewApp
    /\ appMu = [w |-> "none", r |-> {}]
    /\ proc = [p \in Procs |-> ProcIdle]
    /\ out = <<>>
    /\ fan = NoFan
    /\ \E catalogs \in [DOMAIN NoEmo.catalogs -> SUBSET EmoteNames] :
         emo = [NoEmo EXCEPT !.catalogs = catalogs]
    /\ panic = "none"

InitRB ==
    /\ \E size \in 1..MaxCap : ring = NewRingBuffer(size)
    /\ added = <<>>
    /\ got = NoRead
    /\ InitIdle

\* rb.Add(msg): the caller's message carries time.Now(), never the zero time
RBAdd ==
    /\ Len(added) < MaxAdds
    /\ \E c \in Contents :
         LET msg == Message(Len(added) + 1, c)
         IN  /\ ring' = Add(ring, msg)
             /\ added' = Append(added, msg)
    /\ got' = NoRead
    /\ UNCHANGED <<clientVars, appVars, emo, prs, panic>>

RBGetAll ==
    /\ got' = [op |-> "GetAll", n |-> 0, result |-> GetAll(ring)]
    /\ UNCHANGED <<ring, added, clientVars, appVars, emo, prs, panic>>

RBGetLast ==
    /\ \E n \in 0..MaxN :
         got' = [op |-> "GetLast", n |-> n, result |-> GetLast(ring, n)]
    /\ UNCHANGED <<ring, added, clientVars, appVars, emo, prs, panic>>

NextRB == RBAdd \/ RBGetAll \/ RBGetLast

SpecRB == InitRB /\ [][NextRB]_vars

(***************************************************************************)
(* SpecConn: one Client taken through its lifecycle (created, Connect,     *)
(* Start, deliveries, Stop) the way ConnectToChannel does, with its        *)
(* forwardMessages goroutine, a cancel of its context, and two callers of  *)
(* Stop.                                                                   *)
(***************************************************************************)
InitConn ==
    /\ ring = NewRingBuffer(bufferSize)
    /\ added = <<>>
    /\ got = NoRead
    /\ client = [id \in ConnIds |-> NewClient(IF id = 1 THEN "#a" ELSE "", bufferSize)]
    /\ mu = [id \in ConnIds |-> "none"]
    /\ socket = [id \in ConnIds |-> NewSocket]
    /\ listen = [id \in ConnIds |-> NoListen]
    /\ conns = [id \in ConnIds |-> NewConn(IF id = 1 THEN "#a" ELSE "")]
    /\ fwd = [id \in ConnIds |-> NoFwd]
    /\ mon = [id \in ConnIds |-> "none"]
    /\ prs = NoParse
    /\ life = [id \in ConnIds |-> IF id = 1 THEN "new" ELSE "free"]
    /\ app = [NewApp EXCEPT !.activeChannel = "#a"]
    /\ appMu = [w |-> "none", r |-> {}]
    /\ proc = [p \in Procs |-> ProcIdle]
    /\ out = <<>>
    /\ fan = NoFan
    /\ emo = NoEmo
    /\ panic = "none"

\* conn.client.Connect(): the dial fails, or the handshake is sent and the
\* flags are set
ClientConnect(id) ==
    /\ Running
    /\ life[id] = "new"
    /\ mu[id] = "none"
    /\ \/ /\ life' = [life EXCEPT ![id] = "failed"]
          /\ UNCHANGED client
       \/ /\ life' = [life EXCEPT ![id] = "connected"]
          /\ client' = [client EXCEPT ![id] = Connect(@)]
    /\ out' = <<>>
    /\ UNCHANGED <<rbVars, emo, prs, mon, fan, mu, socket, listen, conns, fwd, app, appMu,
                   proc, panic>>

\* conn.client.Start(), conn.isConnected = true, go a.forwardMessages(ctx, conn)
ClientStart(id) ==
    /\ Running
    /\ life[id] = "connected"
    /\ life' = [life EXCEPT ![id] = "started"]
    /\ listen' = [listen EXCEPT ![id].pc = "scanner"]
    /\ conns' = [conns EXCEPT ![id].isConnected = TRUE]
    /\ fwd' = [fwd EXCEPT ![id].pc = "run"]
    /\ out' = <<>>
    /\ UNCHANGED <<rbVars, emo, prs, mon, fan, client, mu, socket, app, appMu, proc, panic>>

\* caller p does what the callers of Stop do: conn.cancel(), then
\* conn.client.Stop().  The callers are alike: the first call is p1's.
StopCall(id, p) ==
    /\ Running
    /\ life[id] = "started"
    /\ proc[p].pc = "idle"
    /\ p = "p2" => proc["p1"].pc # "idle"
    /\ conns' = [conns EXCEPT ![id].cancelled = TRUE]
    /\ StopBegin(id, p)
    /\ proc' = [proc EXCEPT ![p] =
                  [pc |-> IF AlreadyStopped(client[id]) THEN "stopped" ELSE "signal",
                   cmd |-> "Stop", channel |-> client[id].channel, id |-> id,
                   outer |-> NoOuter]]
    /\ out' = <<>>
    /\ UNCHANGED <<rbVars, emo, prs, mon, fan, listen, fwd, life, app, appMu>>

\* caller p's Stop closes stopChan and goes to sleep
StopSleep(id, p) ==
    /\ Running
    /\ proc[p].pc = "signal"
    /\ proc[p].cmd = "Stop"
    /\ proc[p].id = id
    /\ StopClose(id, p)
    /\ proc' = [proc EXCEPT ![p].pc = "sleep"]
    /\ out' = <<>>
    /\ UNCHANGED <<rbVars, emo, prs, mon, fan, listen, conns, fwd, life, app, appMu>>

\* caller p's Stop wakes, closes the delivery channels and returns
StopReturn(id, p) ==
    /\ Running
    /\ proc[p].pc = "sleep"
    /\ proc[p].cmd = "Stop"
    /\ proc[p].id = id
    /\ StopEnd(id, p)
    /\ proc' = [proc EXCEPT ![p].pc = "stopped"]
    /\ out' = <<>>
    /\ UNCHANGED <<rbVars, emo, prs, mon, fan, listen, conns, fwd, life, app, appMu>>

NextConn ==
    \/ ClientConnect(1)
    \/ ClientStart(1)
    \/ \E p \in Procs : StopCall(1, p)
    \/ \E p \in Procs : StopSleep(1, p)
    \/ \E p \in Procs : StopReturn(1, p)
    \/ ListenScanner(1)
    \/ ListenSelect(1)
    \/ ListenScanNil(1)
    \/ ListenScanLine(1, MaxMsgs, MaxRewards)
    \/ ListenScanError(1, TRUE)
    \/ ListenScanEOF(1)
    \/ ListenPong(1)
    \/ SafeSendFlag(1)
    \/ SafeSendSend(1)
    \/ SafeSendDrop(1)
    \/ ListenDefer(1)
    \/ FwdCancelled(1)
    \/ FwdMessage(1)
    \/ FwdReward(1)
    \/ FwdError(1)
    \/ FwdEmit(1)

SpecConn == InitConn /\ [][NextConn]_vars

(***************************************************************************)
(* SpecSup: the App with its commands ConnectToChannel and                 *)
(* DisconnectFromChannel called from concurrent goroutines, each           *)
(* connection with its listen and forwardMessages goroutines.              *)
(***************************************************************************)
\* the lines all sessions of SpecSup carry together
SupMsgs == 1

SupRewards == 0

InitSup ==
    /\ ring = NewRingBuffer(bufferSize)
    /\ added = <<>>
    /\ got = NoRead
    /\ InitIdle

\* the sessions whose remote speaks, fails or closes; the remote of any
\* other session stays silent
LiveIds == {1}

\* connectionsMu.Lock() can be taken
CanLock == appMu.w = "none" /\ appMu.r = {}

\* the callers are alike and so are the channels: the first of two
\* concurrent commands is p1's, and the first connection is #a's
FirstCaller(p, channel) ==
    /\ p = "p2" => proc["p1"].pc # "idle"
    /\ (\A id \in ConnIds : life[id] = "free") => channel = "#a"

\* the lines session id may still carry
RECURSIVE Carried(_, _)
Carried(ids, kind) ==
    IF ids = {} THEN 0
    ELSE LET id == CHOOSE i \in ids : TRUE
         IN  socket[id][kind] + Carried(ids \ {id}, kind)

MsgsLeft(id) == socket[id].nMsg + SupMsgs - Carried(ConnIds, "nMsg")

RewardsLeft(id) == socket[id].nRew + SupRewards - Carried(ConnIds, "nRew")

\* conn, exists := a.connections[channel]; exists && conn.isConnected
IsRegistered(channel) ==
    app.connections[channel] # 0 /\ conns[app.connections[channel]].isConnected

\* the connection a new ChannelConnection gets
FreeId == CHOOSE id \in ConnIds :
            life[id] = "free" /\ \A j \in ConnIds : life[j] = "free" => id <= j

\* ConnectToChannel returns to caller p: AddChannel goes on to its signal;
\* a goroutine of ConnectToAllChannels sends on errors or on successes
\* (neither send can block) and ends
Returned(p, failed) ==
    /\ proc' = [proc EXCEPT ![p] =
                  IF proc[p].outer.cmd = "AddChannel"
                  THEN [pc |-> "status", cmd |-> "AddChannel",
                        channel |-> proc[p].channel, id |-> 0, outer |-> proc[p].outer]
                  ELSE ProcIdle]
    /\ fan' = IF p \in fan.workers
              THEN [fan EXCEPT
                      !.workers = @ \ {p},
                      !.errors = IF failed THEN Append(@, proc[p].channel) ELSE @,
                      !.successes = IF failed THEN @ ELSE Append(@, proc[p].channel)]
              ELSE fan

\* ConnectToChannel up to the dial: on a registered channel the focus is
\* moved and the lock released; otherwise the ChannelConnection and its
\* Client are made and the lock is kept
ConnectLock(p, channel) ==
    /\ Running
    /\ \/ proc[p].pc = "idle" /\ FirstCaller(p, channel)
       \/ proc[p].pc = "connect" /\ proc[p].channel = channel
    /\ CanLock
    /\ IF IsRegistered(channel)
       THEN /\ app' = [app EXCEPT !.activeChannel = channel]
            /\ proc' = [proc EXCEPT ![p] =
                          [pc |-> "switched", cmd |-> "ConnectToChannel",
                           channel |-> channel, id |-> app.connections[channel],
                           outer |-> proc[p].outer]]
            /\ UNCHANGED <<client, socket, listen, conns, fwd, life, appMu>>
       ELSE /\ \E id \in ConnIds : life[id] = "free"
            /\ client' = [client EXCEPT ![FreeId] = NewClient(channel, bufferSize)]
            /\ conns' = [conns EXCEPT ![FreeId] = NewConn(channel)]
            /\ life' = [life EXCEPT ![FreeId] = "new"]
            /\ appMu' = [appMu EXCEPT !.w = p]
            /\ proc' = [proc EXCEPT ![p] =
                          [pc |-> "dial", cmd |-> "ConnectToChannel",
                           channel |-> channel, id |-> FreeId, outer |-> proc[p].outer]]
            /\ UNCHANGED <<socket, listen, fwd, app>>
    /\ out' = <<>>
    /\ UNCHANGED <<rbVars, emo, prs, mon, fan, mu, panic>>

\* a bug ConnectToChannel could have: the error is returned with the lock held
ConnectDialFailsLocked(p) ==
    /\ Running
    /\ proc[p].pc = "dial"
    /\ life' = [life EXCEPT ![proc[p].id] = "failed"]
    /\ Returned(p, TRUE)
    /\ out' = <<>>
    /\ UNCHANGED <<rbVars, emo, prs, mon, client, mu, socket, listen, conns, fwd, app,
                   appMu, panic>>

\* conn.client.Connect() fails: the lock is released and the error returned
ConnectDialFails(p) ==
    /\ Running
    /\ proc[p].pc = "dial"
    /\ life' = [life EXCEPT ![proc[p].id] = "failed"]
    /\ appMu' = [appMu EXCEPT !.w = "none"]
    /\ Returned(p, TRUE)
    /\ out' = <<>>
    /\ UNCHANGED <<rbVars, emo, prs, mon, client, mu, socket, listen, conns, fwd, app, panic>>

\* a bug ConnectToChannel could have: a new connection always takes the focus
FocusAlways(active, channel) == channel

\* if a.activeChannel == "" { a.activeChannel = channel }
FocusAfterConnect(active, channel) == IF active = "" THEN channel ELSE active

\* conn.client.Connect() succeeds: Start, isConnected, the map entry, the
\* focus when there is none, and the lock is released
ConnectDialOk(p) ==
    /\ Running
    /\ proc[p].pc = "dial"
    /\ LET id == proc[p].id
           ch == proc[p].channel
       IN  /\ client' = [client EXCEPT ![id] = Connect(@)]
           /\ listen' = [listen EXCEPT ![id].pc = "scanner"]
           /\ conns' = [conns EXCEPT ![id].isConnected = TRUE]
           /\ life' = [life EXCEPT ![id] = "started"]
           /\ app' = [app EXCEPT
                        !.connections[ch] = id,
                        !.activeChannel = FocusAfterConnect(@, ch)]
    /\ appMu' = [appMu EXCEPT !.w = "none"]
    /\ proc' = [proc EXCEPT ![p].pc = "spawn"]
    /\ out' = <<>>
    /\ UNCHANGED <<rbVars, emo, prs, mon, fan, mu, socket, fwd, panic>>

\* go a.forwardMessages, go a.monitorViewerCount, the channel-connected signal
ConnectSpawn(p) ==
    /\ Running
    /\ proc[p].pc = "spawn"
    /\ fwd' = [fwd EXCEPT ![proc[p].id].pc = "run"]
    /\ mon' = [mon EXCEPT ![proc[p].id] = "run"]
    /\ life' = [life EXCEPT ![proc[p].id] = "spawned"]
    /\ Returned(p, FALSE)
    /\ out' = <<Event("channel-connected", proc[p].channel, <<>>)>>
    /\ UNCHANGED <<rbVars, emo, prs, client, mu, socket, listen, conns, app, appMu, panic>>

\* the focus-switch path after the unlock: the channel-switched signal
ConnectSwitched(p) ==
    /\ Running
    /\ proc[p].pc = "switched"
    /\ proc' = [proc EXCEPT ![p].pc = "replay"]
    /\ out' = <<Event("channel-switched", proc[p].channel, <<>>)>>
    /\ UNCHANGED <<rbVars, emo, prs, mon, fan, client, mu, socket, listen, conns, fwd, life,
                   app, appMu, panic>>

\* emitRecentMessages: a.connections is read with no lock held;
\* ConnectToChannel returns after it, SwitchToChannel goes on
ConnectReplay(p) ==
    /\ Running
    /\ proc[p].pc = "replay"
    /\ LET id == app.connections[proc[p].channel]
       IN  out' = IF id = 0
                  THEN <<>>
                  ELSE <<Event("channel-messages", proc[p].channel, conns[id].messages)>>
    /\ IF proc[p].cmd = "SwitchToChannel"
       THEN /\ proc' = [proc EXCEPT ![p].pc = "viewers"]
            /\ UNCHANGED fan
       ELSE Returned(p, FALSE)
    /\ UNCHANGED <<rbVars, emo, prs, mon, client, mu, socket, listen, conns, fwd, life,
                   app, appMu, panic>>

\* the same read while DisconnectFromChannel is about to delete from the
\* map: a concurrent map read and map write, which the runtime may detect
ConnectReplayRace(p) ==
    /\ Running
    /\ proc[p].pc = "replay"
    /\ \E q \in Procs : proc[q].cmd = "DisconnectFromChannel" /\ proc[q].pc = "sleep"
    /\ panic' = "concurrent map read and map write"
    /\ out' = <<>>
    /\ UNCHANGED <<rbVars, emo, prs, mon, fan, client, mu, socket, listen, conns, fwd, life,
                   app, appMu, proc>>

\* SwitchToChannel up to the unlock: on a registered channel the focus is
\* moved; otherwise the lock is released and ConnectToChannel called
SwitchLock(p, channel) ==
    /\ Running
    /\ proc[p].pc = "idle"
    /\ FirstCaller(p, channel)
    /\ CanLock
    /\ IF IsRegistered(channel)
       THEN /\ app' = [app EXCEPT !.activeChannel = channel]
            /\ proc' = [proc EXCEPT ![p] =
                          [pc |-> "replay", cmd |-> "SwitchToChannel",
                           channel |-> channel, id |-> app.connections[channel],
                           outer |-> NoOuter]]
       ELSE /\ proc' = [proc EXCEPT ![p] =
                          [pc |-> "connect", cmd |-> "SwitchToChannel",
                           channel |-> channel, id |-> 0, outer |-> NoOuter]]
            /\ UNCHANGED app
    /\ out' = <<>>
    /\ UNCHANGED <<rbVars, emo, prs, mon, fan, client, mu, socket, listen, conns, fwd, life,
                   appMu, panic>>

\* SwitchToChannel after emitRecentMessages: conn.viewerCount of the
\* connection found under the lock, the viewer-count and channel-switched
\* signals
SwitchEmit(p) ==
    /\ Running
    /\ proc[p].pc = "viewers"
    /\ out' = <<Event("viewer-count", proc[p].channel, <<conns[proc[p].id].viewerCount>>),
                Event("channel-switched", proc[p].channel, <<>>)>>
    /\ proc' = [proc EXCEPT ![p] = ProcIdle]
    /\ UNCHANGED <<rbVars, emo, prs, mon, fan, client, mu, socket, listen, conns, fwd, life,
                   app, appMu, panic>>

\* a bug DisconnectFromChannel could have: the focus is left as it is
FocusKept(active, channel) == active

\* a bug DisconnectFromChannel could have: the focus is always cleared
FocusCleared(active, channel) == ""

\* if a.activeChannel == channel { a.activeChannel = "" }
FocusAfterDisconnect(active, channel) == IF active = channel THEN "" ELSE active

\* DisconnectFromChannel from conn.isConnected = false to its return: the
\* entry is deleted, the focus cleared when it was this channel
Deregister(id, channel) ==
    /\ conns' = [conns EXCEPT ![id].isConnected = FALSE, ![id].cancelled = TRUE]
    /\ app' = [app EXCEPT
                 !.connections[channel] = 0,
                 !.activeChannel = FocusAfterDisconnect(@, channel)]
    /\ out' = (IF app.activeChannel = channel
               THEN <<Event("active-channel-disconnected", channel, <<>>)>>
               ELSE <<>>)
              \o <<Event("channel-disconnected", channel, <<>>)>>

\* DisconnectFromChannel(channel) is called by p, or by RemoveChannel for p
Disconnects(p, channel) ==
    \/ proc[p].pc = "idle" /\ FirstCaller(p, channel)
    \/ proc[p].pc = "disconnect" /\ proc[p].channel = channel

\* DisconnectFromChannel returns to caller p: RemoveChannel goes on to the
\* list, whatever was returned
Disconnected(p, channel) ==
    IF proc[p].outer.cmd = "RemoveChannel"
    THEN [pc |-> "remove", cmd |-> "RemoveChannel", channel |-> channel, id |-> 0,
          outer |-> NoOuter]
    ELSE ProcIdle

\* DisconnectFromChannel on a channel with no entry: the error is returned
DisconnectUnknown(p, channel) ==
    /\ Running
    /\ Disconnects(p, channel)
    /\ CanLock
    /\ app.connections[channel] = 0
    /\ proc' = [proc EXCEPT ![p] = Disconnected(p, channel)]
    /\ out' = <<>>
    /\ UNCHANGED <<rbVars, emo, prs, mon, fan, client, mu, socket, listen, conns, fwd, life,
                   app, appMu, panic>>

\* DisconnectFromChannel on a channel of the map, up to c.conn = nil in Stop:
\* the lock is taken, the context cancelled and Stop called
DisconnectLock(p, channel) ==
    /\ Running
    /\ Disconnects(p, channel)
    /\ CanLock
    /\ app.connections[channel] # 0
    /\ LET id == app.connections[channel]
       IN  /\ StopBegin(id, p)
           /\ IF AlreadyStopped(client[id])
              THEN /\ Deregister(id, channel)
                   /\ proc' = [proc EXCEPT ![p] = Disconnected(p, channel)]
                   /\ UNCHANGED appMu
              ELSE /\ conns' = [conns EXCEPT ![id].cancelled = TRUE]
                   /\ appMu' = [appMu EXCEPT !.w = p]
                   /\ proc' = [proc EXCEPT ![p] =
                                 [pc |-> "signal", cmd |-> "DisconnectFromChannel",
                                  channel |-> channel, id |-> id,
                                  outer |-> proc[p].outer]]
                   /\ out' = <<>>
                   /\ UNCHANGED app
    /\ UNCHANGED <<rbVars, emo, prs, mon, fan, listen, fwd, life>>

\* its Stop closes stopChan and goes to sleep
DisconnectSignal(p) ==
    /\ Running
    /\ proc[p].pc = "signal"
    /\ proc[p].cmd = "DisconnectFromChannel"
    /\ StopClose(proc[p].id, p)
    /\ proc' = [proc EXCEPT ![p].pc = "sleep"]
    /\ out' = <<>>
    /\ UNCHANGED <<rbVars, emo, prs, mon, fan, listen, conns, fwd, life, app, appMu>>

\* its Stop wakes, closes the delivery channels and returns; the entry is
\* deleted and the lock released
DisconnectFinish(p) ==
    /\ Running
    /\ proc[p].pc = "sleep"
    /\ proc[p].cmd = "DisconnectFromChannel"
    /\ StopEnd(proc[p].id, p)
    /\ IF panic' = "none"
       THEN /\ Deregister(proc[p].id, proc[p].channel)
            /\ appMu' = [appMu EXCEPT !.w = "none"]
            /\ proc' = [proc EXCEPT ![p] = Disconnected(p, proc[p].channel)]
       ELSE /\ out' = <<>>
            /\ UNCHANGED <<conns, app, appMu, proc>>
    /\ UNCHANGED <<rbVars, emo, prs, mon, fan, listen, fwd, life>>

\* a bug the loop could have: it only comes to the entry of #a
UnstoppedFirstOnly == {ch \in {"#a"} :
                         app.connections[ch] # 0 /\ ~client[app.connections[ch]].stopped}

\* the entries of a.connections whose Client the loop of
\* DisconnectFromAllChannels has yet to stop
Unstopped == {ch \in Channels :
                app.connections[ch] # 0 /\ ~client[app.connections[ch]].stopped}

\* DisconnectFromAllChannels: a.connectionsMu.Lock()
AllLock(p) ==
    /\ Running
    /\ proc[p].pc = "idle"
    /\ FirstCaller(p, "#a")
    /\ CanLock
    /\ appMu' = [appMu EXCEPT !.w = p]
    /\ proc' = [proc EXCEPT ![p] =
                  [pc |-> "all", cmd |-> "DisconnectFromAllChannels",
                   channel |-> "", id |-> 0, outer |-> NoOuter]]
    /\ out' = <<>>
    /\ UNCHANGED <<rbVars, emo, prs, mon, fan, client, mu, socket, listen, conns, fwd, life,
                   app, panic>>

\* the loop comes to an entry, in the order the map gives: conn.cancel()
\* and conn.client.Stop() up to c.conn = nil
AllStop(p) ==
    /\ Running
    /\ proc[p].pc = "all"
    /\ \E ch \in Unstopped :
         LET id == app.connections[ch]
         IN  /\ StopBegin(id, p)
             /\ conns' = [conns EXCEPT ![id].cancelled = TRUE]
             /\ proc' = [proc EXCEPT ![p].pc = "signal", ![p].channel = ch, ![p].id = id]
    /\ out' = <<>>
    /\ UNCHANGED <<rbVars, emo, prs, mon, fan, listen, fwd, life, app, appMu>>

\* that Stop closes stopChan and goes to sleep
AllSignal(p) ==
    /\ Running
    /\ proc[p].pc = "signal"
    /\ proc[p].cmd = "DisconnectFromAllChannels"
    /\ StopClose(proc[p].id, p)
    /\ proc' = [proc EXCEPT ![p].pc = "sleep"]
    /\ out' = <<>>
    /\ UNCHANGED <<rbVars, emo, prs, mon, fan, listen, conns, fwd, life, app, appMu>>

\* that Stop wakes, closes the delivery channels and returns to the loop
AllSleep(p) ==
    /\ Running
    /\ proc[p].pc = "sleep"
    /\ proc[p].cmd = "DisconnectFromAllChannels"
    /\ StopEnd(proc[p].id, p)
    /\ proc' = [proc EXCEPT ![p].pc = IF panic' = "none" THEN "all" ELSE @]
    /\ out' = <<>>
    /\ UNCHANGED <<rbVars, emo, prs, mon, fan, listen, conns, fwd, life, app, appMu>>

\* after the loop: a new empty map, no active channel, the signal, and the
\* lock is released
AllFinish(p) ==
    /\ Running
    /\ proc[p].pc = "all"
    /\ Unstopped = {}
    /\ app' = [app EXCEPT !.connections = NewApp.connections, !.activeChannel = ""]
    /\ appMu' = [appMu EXCEPT !.w = "none"]
    /\ proc' = [proc EXCEPT ![p] = ProcIdle]
    /\ out' = <<Event("all-channels-disconnected", "", <<>>)>>
    /\ UNCHANGED <<rbVars, emo, prs, mon, fan, client, mu, socket, listen, conns, fwd, life, panic>>

\* for _, ch := range a.channels { if ch == channel ... }
Listed(channels, name) == \E i \in 1..Len(channels) : channels[i] = name

\* connectionsMu.RLock() can be taken
CanRLock == appMu.w = "none"

\* AddChannel up to checkStreamStatus: the read lock is taken; on a channel
\* of the list the call returns with the read lock still held (the
\* deferred RUnlock is commented out), and the lock then has a reader that
\* no call stands for
AddLock(p, channel) ==
    /\ Running
    /\ proc[p].pc = "idle"
    /\ FirstCaller(p, channel)
    /\ CanRLock
    /\ IF Listed(app.channels, TrimHash(channel))
       THEN /\ appMu' = [appMu EXCEPT !.r = @ \cup {"returned"}]
            /\ UNCHANGED proc
       ELSE /\ appMu' = [appMu EXCEPT !.r = @ \cup {p}]
            /\ proc' = [proc EXCEPT ![p] =
                          [pc |-> "check", cmd |-> "AddChannel",
                           channel |-> channel, id |-> 0, outer |-> NoOuter]]
    /\ out' = <<>>
    /\ UNCHANGED <<rbVars, emo, prs, mon, fan, client, mu, socket, listen, conns, fwd, life,
                   app, panic>>

\* checkStreamStatus has answered (its request times out after 10 s): the
\* list and liveStatuses are written, the read lock is released and
\* ConnectToChannel is called
AddChecked(p, isLive) ==
    /\ Running
    /\ proc[p].pc = "check"
    /\ app' = [app EXCEPT
                 !.channels = Append(@, TrimHash(proc[p].channel)),
                 !.liveStatuses[TrimHash(proc[p].channel)] =
                     IF isLive THEN "live" ELSE "offline"]
    /\ appMu' = [appMu EXCEPT !.r = @ \ {p}]
    /\ proc' = [proc EXCEPT ![p].pc = "connect",
                            ![p].outer = [cmd |-> "AddChannel", isLive |-> isLive]]
    /\ out' = <<>>
    /\ UNCHANGED <<rbVars, emo, prs, mon, fan, client, mu, socket, listen, conns, fwd, life,
                   panic>>

\* AddChannel after ConnectToChannel, whose error it ignores: the
\* channel-live-status signal
AddEmit(p) ==
    /\ Running
    /\ proc[p].pc = "status"
    /\ out' = <<Event("channel-live-status", TrimHash(proc[p].channel),
                      <<proc[p].outer.isLive>>)>>
    /\ proc' = [proc EXCEPT ![p] = ProcIdle]
    /\ UNCHANGED <<rbVars, emo, prs, mon, fan, client, mu, socket, listen, conns, fwd, life,
                   app, appMu, panic>>

\* a.channels after RemoveChannel's loop: the first element equal to channel
\* is cut out
RECURSIVE Removed(_, _)
Removed(channels, channel) ==
    IF channels = <<>> THEN <<>>
    ELSE IF Head(channels) = channel THEN Tail(channels)
    ELSE <<Head(channels)>> \o Removed(Tail(channels), channel)

\* RemoveChannel(name) is called: DisconnectFromChannel("#" + name) comes
\* first
RemoveCall(p, name) ==
    /\ Running
    /\ proc[p].pc = "idle"
    /\ proc' = [proc EXCEPT ![p] =
                  [pc |-> "disconnect", cmd |-> "RemoveChannel",
                   channel |-> CHOOSE ch \in Channels : TrimHash(ch) = name,
                   id |-> 0, outer |-> [cmd |-> "RemoveChannel", isLive |-> FALSE]]]
    /\ out' = <<>>
    /\ UNCHANGED <<rbVars, emo, prs, mon, fan, client, mu, socket, listen, conns, fwd, life,
                   app, appMu, panic>>

\* RemoveChannel after DisconnectFromChannel: the name is cut out of
\* a.channels, with no lock held
RemoveListed(p) ==
    /\ Running
    /\ proc[p].pc = "remove"
    /\ app' = [app EXCEPT !.channels = Removed(@, TrimHash(proc[p].channel))]
    /\ proc' = [proc EXCEPT ![p].pc = "forget"]
    /\ out' = <<>>
    /\ UNCHANGED <<rbVars, emo, prs, mon, fan, client, mu, socket, listen, conns, fwd, life,
                   appMu, panic>>

\* RemoveChannel from connectionsMu.Lock() to its return: the status of the
\* name is deleted and channel-removed is emitted
RemoveForget(p) ==
    /\ Running
    /\ proc[p].pc = "forget"
    /\ CanLock
    /\ app' = [app EXCEPT !.liveStatuses[TrimHash(proc[p].channel)] = "none"]
    /\ proc' = [proc EXCEPT ![p] = ProcIdle]
    /\ out' = <<Event("channel-removed", TrimHash(proc[p].channel), <<>>)>>
    /\ UNCHANGED <<rbVars, emo, prs, mon, fan, client, mu, socket, listen, conns, fwd, life,
                   appMu, panic>>

\* the ticks of statusTicker the monitoring receives
MaxTicks == 2

StatusFrame ==
    UNCHANGED <<rbVars, emo, prs, mon, fan, client, mu, socket, listen, conns, fwd, life,
                appMu, proc, panic>>

\* the range over names goes on at index i, or is over
Ranging(status, pc, i) ==
    IF i <= Len(status.names)
    THEN [status EXCEPT !.pc = pc, !.i = i]
    ELSE [status EXCEPT !.pc = "wait", !.i = 0, !.names = <<>>]

\* what an iteration of range a.channels reads at index i: the slice was
\* taken when the range began, and RemoveChannel and AddChannel write its
\* elements with no lock the range takes
Seen(status) ==
    {status.names[status.i]} \cup
        (IF status.i <= Len(app.channels) THEN {app.channels[status.i]} ELSE {})

\* go a.startLiveStatusMonitoring(): the range of the initial check begins
StatusStart ==
    /\ Running
    /\ app.status.pc = "none"
    /\ app' = [app EXCEPT !.status =
                 Ranging([@ EXCEPT !.names = app.channels], "first", 1)]
    /\ out' = <<>>
    /\ StatusFrame

\* case <-a.statusTicker.C: the range of checkAllChannelsStatus begins
StatusTick ==
    /\ Running
    /\ app.status.pc = "wait"
    /\ app.status.ticks < MaxTicks
    /\ app' = [app EXCEPT !.status =
                 Ranging([@ EXCEPT !.names = app.channels, !.ticks = @ + 1],
                         "poll", 1)]
    /\ out' = <<>>
    /\ StatusFrame

\* an iteration of either range up to the lock: checkStreamStatus(channel)
\* has answered (its request times out after 10 s)
StatusPoll(channel, isLive) ==
    /\ Running
    /\ app.status.pc \in {"first", "poll"}
    /\ channel \in Seen(app.status)
    /\ app' = [app EXCEPT !.status =
                 [@ EXCEPT !.pc = IF @ = "first" THEN "firstRecord" ELSE "record",
                           !.channel = channel, !.current = isLive]]
    /\ out' = <<>>
    /\ StatusFrame

\* liveStatuses holds true or false under a key, or has no such key
Recorded(isLive) == IF isLive THEN "live" ELSE "offline"

\* an iteration of the initial check from the lock on: the status is
\* written and always emitted
StatusFirstRecord ==
    /\ Running
    /\ app.status.pc = "firstRecord"
    /\ CanLock
    /\ app' = [app EXCEPT
                 !.liveStatuses[app.status.channel] = Recorded(app.status.current),
                 !.status = Ranging(@, "first", @.i + 1)]
    /\ out' = <<Event("channel-live-status", app.status.channel,
                      <<app.status.current>>)>>
    /\ StatusFrame

\* a bug checkAllChannelsStatus could have: a missing key reads as false
ChangedFromZero(previousStatus, currentStatus) ==
    (previousStatus = "live") # currentStatus

\* !exists || previousStatus != currentStatus
Changed(previousStatus, currentStatus) ==
    previousStatus = "none" \/ previousStatus # Recorded(currentStatus)

\* an iteration of checkAllChannelsStatus from the lock on: the status is
\* written and emitted when it changed
StatusRecord ==
    /\ Running
    /\ app.status.pc = "record"
    /\ CanLock
    /\ LET channel == app.status.channel
           currentStatus == app.status.current
       IN  IF Changed(app.liveStatuses[channel], currentStatus)
           THEN /\ app' = [app EXCEPT
                             !.liveStatuses[channel] = Recorded(currentStatus),
                             !.status = Ranging(@, "poll", @.i + 1)]
                /\ out' = <<Event("channel-live-status", channel, <<currentStatus>>)>>
           ELSE /\ app' = [app EXCEPT !.status = Ranging(@, "poll", @.i + 1)]
                /\ out' = <<>>
    /\ StatusFrame

\* case <-a.stopMonitoring: OnBeforeClose has closed it
StatusStop ==
    /\ Running
    /\ app.status.pc = "wait"
    /\ app' = [app EXCEPT !.status.pc = "done"]
    /\ out' = <<>>
    /\ StatusFrame

\* the values of a.channels
Configs ==
    {<<>>} \cup {<<ch>> : ch \in Channels}
           \cup {<<c1, c2>> : <<c1, c2>> \in {x \in Channels \X Channels : x[1] # x[2]}}

FanFrame ==
    /\ out' = <<>>
    /\ UNCHANGED <<rbVars, emo, prs, mon, clientVars, conns, fwd, life, app, appMu, panic>>

\* ConnectToAllChannels is called: with no channel configured it returns
\* nil at once
FanStart(channels) ==
    /\ Running
    /\ fan.pc \in {"idle", "done"}
    /\ \A p \in Procs : proc[p].pc = "idle"
    /\ fan' = IF Len(channels) = 0
              THEN [NoFan EXCEPT !.pc = "done"]
              ELSE [NoFan EXCEPT !.pc = "launch", !.configured = channels,
                                 !.todo = channels]
    /\ UNCHANGED proc
    /\ FanFrame

\* the loop over a.channels: wg.Add(1) and the goroutine that calls
\* ConnectToChannel(ch)
FanLaunch(p) ==
    /\ Running
    /\ fan.pc = "launch"
    /\ proc[p].pc = "idle"
    /\ p = "p2" => proc["p1"].pc # "idle" \/ "p1" \in fan.workers
    /\ proc' = [proc EXCEPT ![p] =
                  [pc |-> "connect", cmd |-> "ConnectToAllChannels",
                   channel |-> Head(fan.todo), id |-> 0, outer |-> NoOuter]]
    /\ fan' = [fan EXCEPT !.todo = Tail(@), !.workers = @ \cup {p},
                          !.pc = IF Len(fan.todo) = 1 THEN "collect" ELSE @]
    /\ FanFrame

\* wg.Wait() returns: close(errors), close(successes)
FanWait ==
    /\ Running
    /\ fan.pc = "collect"
    /\ fan.workers = {}
    /\ ~fan.closed
    /\ fan' = [fan EXCEPT !.closed = TRUE]
    /\ UNCHANGED proc
    /\ FanFrame

\* case err, ok := <-errChan with ok
FanRecvError ==
    /\ Running
    /\ fan.pc = "collect"
    /\ fan.errors # <<>>
    /\ fan' = [fan EXCEPT !.errors = Tail(@),
                          !.connectionErrors = Append(@, Head(fan.errors))]
    /\ UNCHANGED proc
    /\ FanFrame

\* case success, ok := <-sucChan with ok
FanRecvSuccess ==
    /\ Running
    /\ fan.pc = "collect"
    /\ fan.successes # <<>>
    /\ fan' = [fan EXCEPT !.successes = Tail(@),
                          !.successfulConnections = Append(@, Head(fan.successes))]
    /\ UNCHANGED proc
    /\ FanFrame

\* a bug the result could have: an error as soon as one channel failed
FanResultStrict(connectionErrors, successfulConnections) ==
    IF Len(connectionErrors) > 0
    THEN [ok |-> FALSE, failures |-> connectionErrors]
    ELSE NilResult

\* what ConnectToAllChannels returns after the loop
FanResult(connectionErrors, successfulConnections) ==
    IF Len(connectionErrors) > 0 /\ Len(successfulConnections) = 0
    THEN [ok |-> FALSE, failures |-> connectionErrors]
    ELSE NilResult

\* both channels are closed and drained: the loop ends and the result is
\* returned
FanReturn ==
    /\ Running
    /\ fan.pc = "collect"
    /\ fan.closed
    /\ fan.errors = <<>> /\ fan.successes = <<>>
    /\ fan' = [fan EXCEPT !.pc = "done",
                          !.result = FanResult(fan.connectionErrors,
                                               fan.successfulConnections)]
    /\ UNCHANGED proc
    /\ FanFrame

NextSup ==
    \/ \E p \in Procs, ch \in Channels : ConnectLock(p, ch)
    \/ \E p \in Procs : ConnectDialFails(p)
    \/ \E p \in Procs : ConnectDialOk(p)
    \/ \E p \in Procs : ConnectSpawn(p)
    \/ \E p \in Procs : ConnectSwitched(p)
    \/ \E p \in Procs : ConnectReplay(p)
    \/ \E p \in Procs : ConnectReplayRace(p)
    \/ \E p \in Procs, ch \in Channels : DisconnectUnknown(p, ch)
    \/ \E p \in Procs, ch \in Channels : DisconnectLock(p, ch)
    \/ \E p \in Procs : DisconnectSignal(p)
    \/ \E p \in Procs : DisconnectFinish(p)
    \/ \E id \in ConnIds : ListenScanner(id)
    \/ \E id \in ConnIds : ListenSelect(id)
    \/ \E id \in ConnIds : ListenScanNil(id)
    \/ \E id \in LiveIds : ListenScanLine(id, MsgsLeft(id), RewardsLeft(id))
    \/ \E id \in ConnIds : ListenScanError(id, id \in LiveIds)
    \/ \E id \in LiveIds : ListenScanEOF(id)
    \/ \E id \in LiveIds : ListenPong(id)
    \/ \E id \in ConnIds : SafeSendFlag(id)
    \/ \E id \in ConnIds : SafeSendSend(id)
    \/ \E id \in ConnIds : SafeSendDrop(id)
    \/ \E id \in ConnIds : ListenDefer(id)
    \/ \E id \in ConnIds : FwdCancelled(id)
    \/ \E id \in ConnIds : FwdMessage(id)
    \/ \E id \in ConnIds : FwdReward(id)
    \/ \E id \in ConnIds : FwdError(id)
    \/ \E id \in ConnIds : FwdEmit(id)

SpecSup == InitSup /\ [][NextSup]_vars

(***************************************************************************)
(* SpecFocus: the App with SwitchToChannel next to ConnectToChannel and    *)
(* DisconnectFromChannel, called from concurrent goroutines; the remotes   *)
(* stay silent, so a listen goroutine ends only through Stop.              *)
(***************************************************************************)
NextFocus ==
    \/ \E p \in Procs, ch \in Channels : ConnectLock(p, ch)
    \/ \E p \in Procs : ConnectDialFails(p)
    \/ \E p \in Procs : ConnectDialOk(p)
    \/ \E p \in Procs : ConnectSpawn(p)
    \/ \E p \in Procs : ConnectSwitched(p)
    \/ \E p \in Procs : ConnectReplay(p)
    \/ \E p \in Procs : ConnectReplayRace(p)
    \/ \E p \in Procs, ch \in Channels : SwitchLock(p, ch)
    \/ \E p \in Procs : SwitchEmit(p)
    \/ \E p \in Procs, ch \in Channels : DisconnectUnknown(p, ch)
    \/ \E p \in Procs, ch \in Channels : DisconnectLock(p, ch)
    \/ \E p \in Procs : DisconnectSignal(p)
    \/ \E p \in Procs : DisconnectFinish(p)
    \/ \E id \in ConnIds : ListenScanner(id)
    \/ \E id \in ConnIds : ListenSelect(id)
    \/ \E id \in ConnIds : ListenScanNil(id)
    \/ \E id \in ConnIds : ListenScanError(id, FALSE)
    \/ \E id \in ConnIds : SafeSendFlag(id)
    \/ \E id \in ConnIds : ListenDefer(id)
    \/ \E id \in ConnIds : FwdCancelled(id)
    \/ \E id \in ConnIds : FwdMessage(id)
    \/ \E id \in ConnIds : FwdReward(id)
    \/ \E id \in ConnIds : FwdError(id)

SpecFocus == InitSup /\ [][NextFocus]_vars

(***************************************************************************)
(* SpecAdd: the App with AddChannel next to ConnectToChannel and           *)
(* DisconnectFromChannel, called one after the other; the remotes stay     *)
(* silent.                                                                 *)
(***************************************************************************)
NextAdd ==
    \/ \E p \in Callers, ch \in Channels : AddLock(p, ch)
    \/ \E p \in Callers, isLive \in BOOLEAN : AddChecked(p, isLive)
    \/ \E p \in Callers : AddEmit(p)
    \/ \E p \in Callers, ch \in Channels : ConnectLock(p, ch)
    \/ \E p \in Callers : ConnectDialFails(p)
    \/ \E p \in Callers : ConnectDialOk(p)
    \/ \E p \in Callers : ConnectSpawn(p)
    \/ \E p \in Callers : ConnectSwitched(p)
    \/ \E p \in Callers : ConnectReplay(p)
    \/ \E p \in Callers, ch \in Channels : DisconnectLock(p, ch)
    \/ \E p \in Callers : DisconnectSignal(p)
    \/ \E p \in Callers : DisconnectFinish(p)
    \/ \E id \in ConnIds : ListenScanner(id)
    \/ \E id \in ConnIds : ListenSelect(id)
    \/ \E id \in ConnIds : ListenScanNil(id)
    \/ \E id \in ConnIds : ListenScanError(id, FALSE)
    \/ \E id \in ConnIds : SafeSendFlag(id)
    \/ \E id \in ConnIds : ListenDefer(id)
    \/ \E id \in ConnIds : FwdCancelled(id)
    \/ \E id \in ConnIds : FwdMessage(id)
    \/ \E id \in ConnIds : FwdReward(id)
    \/ \E id \in ConnIds : FwdError(id)

SpecAdd == InitSup /\ [][NextAdd]_vars

(***************************************************************************)
(* SpecStatus: the live-status monitoring next to AddChannel and           *)
(* RemoveChannel, called one after the other; the IRC server cannot be     *)
(* reached, so every dial fails.                                           *)
(***************************************************************************)
NextStatus ==
    \/ StatusStart
    \/ StatusTick
    \/ \E name \in {TrimHash(ch) : ch \in Channels}, isLive \in BOOLEAN :
          StatusPoll(name, isLive)
    \/ StatusFirstRecord
    \/ StatusRecord
    \/ StatusStop
    \/ \E p \in Callers, ch \in Channels : AddLock(p, ch)
    \/ \E p \in Callers, isLive \in BOOLEAN : AddChecked(p, isLive)
    \/ \E p \in Callers : AddEmit(p)
    \/ \E p \in Callers, ch \in Channels : RemoveCall(p, TrimHash(ch))
    \/ \E p \in Callers : RemoveListed(p)
    \/ \E p \in Callers : RemoveForget(p)
    \/ \E p \in Callers, ch \in Channels : ConnectLock(p, ch)
    \/ \E p \in Callers : ConnectDialFails(p)
    \/ \E p \in Callers, ch \in Channels : DisconnectUnknown(p, ch)

SpecStatus == InitSup /\ [][NextStatus]_vars

(***************************************************************************)
(* SpecAll: the App with DisconnectFromAllChannels next to                 *)
(* ConnectToChannel, called from concurrent goroutines; the remotes stay   *)
(* silent.                                                                 *)
(***************************************************************************)
NextAll ==
    \/ \E p \in Procs, ch \in Channels : ConnectLock(p, ch)
    \/ \E p \in Procs : ConnectDialFails(p)
    \/ \E p \in Procs : ConnectDialOk(p)
    \/ \E p \in Procs : ConnectSpawn(p)
    \/ \E p \in Procs : ConnectSwitched(p)
    \/ \E p \in Procs : ConnectReplay(p)
    \/ \E p \in Procs : AllLock(p)
    \/ \E p \in Procs : AllStop(p)
    \/ \E p \in Procs : AllSignal(p)
    \/ \E p \in Procs : AllSleep(p)
    \/ \E p \in Procs : AllFinish(p)
    \/ \E id \in ConnIds : ListenScanner(id)
    \/ \E id \in ConnIds : ListenSelect(id)
    \/ \E id \in ConnIds : ListenScanNil(id)
    \/ \E id \in ConnIds : ListenScanError(id, FALSE)
    \/ \E id \in ConnIds : SafeSendFlag(id)
    \/ \E id \in ConnIds : ListenDefer(id)
    \/ \E id \in ConnIds : FwdCancelled(id)
    \/ \E id \in ConnIds : FwdMessage(id)
    \/ \E id \in ConnIds : FwdReward(id)
    \/ \E id \in ConnIds : FwdError(id)

SpecAll == InitSup /\ [][NextAll]_vars

(***************************************************************************)
(* SpecCommands: ConnectToChannel, SwitchToChannel, DisconnectFromChannel  *)
(* DisconnectFromAllChannels and ConnectToAllChannels called from         *)
(* concurrent goroutines. The goroutines of the connections are started    *)
(* and take no step: none of their steps reads or writes the connection    *)
(* map or the focus.                                                       *)
(***************************************************************************)
NextCommands ==
    \/ \E channels \in Configs : FanStart(channels)
    \/ \E p \in Procs : FanLaunch(p)
    \/ FanWait
    \/ FanRecvError
    \/ FanRecvSuccess
    \/ FanReturn
    \/ \E p \in Procs, ch \in Channels : ConnectLock(p, ch)
    \/ \E p \in Procs : ConnectDialFails(p)
    \/ \E p \in Procs : ConnectDialOk(p)
    \/ \E p \in Procs : ConnectSpawn(p)
    \/ \E p \in Procs : ConnectSwitched(p)
    \/ \E p \in Procs : ConnectReplay(p)
    \/ \E p \in Procs, ch \in Channels : SwitchLock(p, ch)
    \/ \E p \in Procs : SwitchEmit(p)
    \/ \E p \in Procs, ch \in Channels : DisconnectUnknown(p, ch)
    \/ \E p \in Procs, ch \in Channels : DisconnectLock(p, ch)
    \/ \E p \in Procs : DisconnectSignal(p)
    \/ \E p \in Procs : DisconnectFinish(p)
    \/ \E p \in Procs : AllLock(p)
    \/ \E p \in Procs : AllStop(p)
    \/ \E p \in Procs : AllSignal(p)
    \/ \E p \in Procs : AllSleep(p)
    \/ \E p \in Procs : AllFinish(p)

SpecCommands == InitSup /\ [][NextCommands]_vars

(***************************************************************************)
(* SpecFan: ConnectToAllChannels over any configuration of channels, its   *)
(* goroutines calling ConnectToChannel; the remotes stay silent.           *)
(***************************************************************************)
NextFan ==
    \/ \E channels \in Configs : FanStart(channels)
    \/ \E p \in Procs : FanLaunch(p)
    \/ FanWait
    \/ FanRecvError
    \/ FanRecvSuccess
    \/ FanReturn
    \/ \E p \in Procs, ch \in Channels : ConnectLock(p, ch)
    \/ \E p \in Procs : ConnectDialFails(p)
    \/ \E p \in Procs : ConnectDialOk(p)
    \/ \E p \in Procs : ConnectSpawn(p)
    \/ \E p \in Procs : ConnectSwitched(p)
    \/ \E p \in Procs : ConnectReplay(p)
    \/ \E id \in ConnIds : ListenScanner(id)
    \/ \E id \in ConnIds : ListenSelect(id)

SpecFan == InitSup /\ [][NextFan]_vars

(***************************************************************************)
(* SpecEmotes: findEmote and ParseEmotes called on any word and message,   *)
(* over any content of the six catalogs                                    *)
(***************************************************************************)
InitEmotes ==
    /\ ring = NewRingBuffer(bufferSize)
    /\ added = <<>>
    /\ got = NoRead
    /\ InitLoaded

EmoteFrame == UNCHANGED <<rbVars, clientVars, appVars, prs, panic>>

FindChannels == {"#a", "a", "#b"}

FindWords == {Kappa, <<"t", "e", "s", "t">>}

\* findEmote(channelName, word)
CallFindEmote(channelName, word) ==
    /\ emo.call = NoCall
    /\ LET hit == findEmote(emo.catalogs, channelName, word)
       IN  emo' = [emo EXCEPT !.call =
                      [op |-> "findEmote", channelName |-> channelName,
                       word |-> word, e |-> hit.e, found |-> hit.found]]
    /\ EmoteFrame

\* ParseEmotes(msg): its result, or the panic it ends with
CallParseEmotes(msg) ==
    /\ emo.call = NoCall
    /\ LET r == ParseEmotes(emo.catalogs, msg)
       IN  IF r.panic
           THEN emo' = [emo EXCEPT !.call =
                           [op |-> "ParseEmotes", msg |-> msg, panic |-> TRUE]]
           ELSE \E emotes \in SortedByStart(r.native \o r.third) :
                    emo' = [emo EXCEPT !.call =
                               [op |-> "ParseEmotes", msg |-> msg,
                                panic |-> FALSE, native |-> r.native,
                                covered |-> r.covered, third |-> r.third,
                                lookups |-> r.lookups, emotes |-> emotes]]
    /\ EmoteFrame

\* the caller has taken the result (or the panic has unwound) and the next
\* call can be made
CallReturn ==
    /\ emo.call # NoCall
    /\ emo' = [emo EXCEPT !.call = NoCall]
    /\ EmoteFrame

NextEmotes ==
    \/ \E channelName \in FindChannels, word \in FindWords :
           CallFindEmote(channelName, word)
    \/ \E msg \in EmoteMsgs : CallParseEmotes(msg)
    \/ CallReturn

SpecEmotes == InitEmotes /\ [][NextEmotes]_vars

(***************************************************************************)
(* SpecFetch: ProcessMessageEmotes on the messages of one channel and the  *)
(* downloadEmote goroutines it starts                                      *)
(***************************************************************************)
\* the downloadEmote goroutines that may be waiting to run at one time
MaxDownloads == 2

FetchTags ==
    {<<>>,
     <<"2", "5", ":", "0", "-", "4">>,
     <<"2", "5", ":", "0", "-", "4", ",", "6", "-", "9">>,
     <<"2", "5", ":", "4", "-", "2">>}

FetchMsgs ==
    {msg \in EmoteMsgs :
        /\ msg.Channel = "#a"
        /\ msg.Content # <<"w", " ", "K", "a", "p", "p", "a">>
        /\ msg.emotesTag \in FetchTags}

\* the file downloadEmote writes: channels/<channel>/emotes/<Name>_<ID>.png
EmoteFile(emote, channelName) ==
    [dir |-> TrimHash(channelName), Name |-> emote.Name, ID |-> emote.ID]

\* cacheEmote(emote): emoteCache.emotes[emote.ID] = emote
cacheEmote(cache, emote) ==
    [id \in DOMAIN cache \cup {emote.ID} |->
        IF id = emote.ID THEN emote ELSE cache[id]]

\* the test of ProcessMessageEmotes for starting a download
NeedsDownload(emote) == emote.FilePath = ""

\* ProcessMessageEmotes(msg): ParseEmotes, then `go downloadEmote` for each
\* emote of the result without a FilePath
ProcessMessageEmotes(msg) ==
    /\ emo.call = NoCall
    /\ LET r == ParseEmotes(emo.catalogs, msg)
       IN  IF r.panic
           THEN emo' = [emo EXCEPT !.call =
                           [op |-> "ProcessMessageEmotes", msg |-> msg,
                            panic |-> TRUE]]
           ELSE \E emotes \in SortedByStart(r.native \o r.third) :
                    LET started == {[emote |-> emotes[k], channelName |-> msg.Channel] :
                                       k \in {i \in 1..Len(emotes) : NeedsDownload(emotes[i])}}
                    IN  /\ Cardinality(emo.downloads \cup started) <= MaxDownloads
                        /\ emo' = [emo EXCEPT
                               !.downloads = @ \cup started,
                               !.call = [op |-> "ProcessMessageEmotes", msg |-> msg,
                                         panic |-> FALSE, emotes |-> emotes]]
    /\ EmoteFrame

\* one downloadEmote goroutine runs: the file is there already, or the
\* fetch succeeds ("ok"), or it fails before the file is created
\* ("failed"), or io.Copy fails after os.Create ("partial")
downloadEmote(d, outcome) ==
    /\ d \in emo.downloads
    /\ LET file == EmoteFile(d.emote, d.channelName)
           done == [d.emote EXCEPT !.FilePath = "file"]
       IN  emo' = [emo EXCEPT
               !.downloads = @ \ {d},
               !.files = IF file \notin @ /\ outcome \in {"ok", "partial"}
                         THEN @ \cup {file} ELSE @,
               !.cache = IF file \in emo.files \/ outcome = "ok"
                         THEN cacheEmote(@, done) ELSE @]
    /\ EmoteFrame

\* the scheduler runs one of the started goroutines
GoDownloadEmote ==
    \E d \in emo.downloads, outcome \in {"ok", "failed", "partial"} :
        downloadEmote(d, outcome)

NextFetch ==
    \/ \E msg \in FetchMsgs : ProcessMessageEmotes(msg)
    \/ GoDownloadEmote
    \/ CallReturn

SpecFetch == InitEmotes /\ [][NextFetch]_vars

(***************************************************************************)
(* SpecCatalog: the Fetch goroutines that populate the catalogs of channel *)
(* #a and the global 7TV catalog, next to a findEmote that asks the layers *)
(* one by one, each under the sync.RWMutex of its layer                    *)
(***************************************************************************)
LookChannels == {"#a", "#b"}

\* mutex.Lock() of a layer can be taken
Unlocked(layer) == emo.locks[layer].w = "none" /\ emo.locks[layer].r = {}

\* mutex.RLock() of a layer can be taken
Unwritten(layer) == emo.locks[layer].w = "none"

\* the firstRun block of forwardMessages on a message with a room-id: the
\* 7TV catalog of the channel is replaced with no lock held, and
\* go Fetch7TVEmotes, go FetchBTTVChannelEmotes
GoChannelFetch ==
    /\ emo.fetch["Fetch7TVEmotes"] \in {"none", "done"}
    /\ emo.fetch["FetchBTTVChannelEmotes"] \in {"none", "done"}
    /\ emo' = [emo EXCEPT !.catalogs = Replaced(@, "#a"),
                          !.fetch["Fetch7TVEmotes"] = "api",
                          !.fetch["FetchBTTVChannelEmotes"] = "api"]
    /\ EmoteFrame

\* Fetch7TVEmotes up to channelsMutex.Unlock(): the API request, and the
\* entry of the channel made under the write lock when there is none
F7Api(ok) ==
    /\ emo.fetch["Fetch7TVEmotes"] = "api"
    /\ ok => Unlocked("channel7TV")
    /\ emo' = [emo EXCEPT !.fetch["Fetch7TVEmotes"] = IF ok THEN "stat" ELSE "done"]
    /\ EmoteFrame

\* the loop comes to the emote: global7TVMutex.RLock() with its deferred
\* RUnlock, and os.Stat(outputPath)
F7Stat(exists) ==
    /\ emo.fetch["Fetch7TVEmotes"] = "stat"
    /\ Unwritten("global7TV")
    /\ emo' = [emo EXCEPT !.locks["global7TV"].r = @ \cup {"Fetch7TVEmotes"},
                          !.fetch["Fetch7TVEmotes"] =
                              IF exists THEN "rlock" ELSE "download"]
    /\ EmoteFrame

\* the file is there: channelsMutex.RLock()
F7RLock ==
    /\ emo.fetch["Fetch7TVEmotes"] = "rlock"
    /\ Unwritten("channel7TV")
    /\ emo' = [emo EXCEPT !.locks["channel7TV"].r = @ \cup {"Fetch7TVEmotes"},
                          !.fetch["Fetch7TVEmotes"] = "insert"]
    /\ EmoteFrame

\* channels[...].Emotes[emote.Name] = EmoteInfo{...}; channelsMutex.RUnlock()
F7Insert ==
    /\ emo.fetch["Fetch7TVEmotes"] = "insert"
    /\ emo' = [emo EXCEPT !.catalogs["channel7TV"] = @ \cup {Kappa},
                          !.locks["channel7TV"].r = @ \ {"Fetch7TVEmotes"},
                          !.fetch["Fetch7TVEmotes"] = "return"]
    /\ EmoteFrame

\* the file is not there: downloadFile or downloadFirstFrameFromGIF
F7Download(ok) ==
    /\ emo.fetch["Fetch7TVEmotes"] = "download"
    /\ emo' = [emo EXCEPT !.fetch["Fetch7TVEmotes"] = IF ok THEN "lock" ELSE "return"]
    /\ EmoteFrame

\* channelsMutex.Lock()
F7Lock ==
    /\ emo.fetch["Fetch7TVEmotes"] = "lock"
    /\ Unlocked("channel7TV")
    /\ emo' = [emo EXCEPT !.locks["channel7TV"].w = "Fetch7TVEmotes",
                          !.fetch["Fetch7TVEmotes"] = "store"]
    /\ EmoteFrame

\* channels[...].Emotes[emote.Name] = EmoteInfo{...}; channelsMutex.Unlock()
F7Store ==
    /\ emo.fetch["Fetch7TVEmotes"] = "store"
    /\ emo' = [emo EXCEPT !.catalogs["channel7TV"] = @ \cup {Kappa},
                          !.locks["channel7TV"].w = "none",
                          !.fetch["Fetch7TVEmotes"] = "return"]
    /\ EmoteFrame

\* the loop is over and the function returns: the deferred RUnlock
F7Return ==
    /\ emo.fetch["Fetch7TVEmotes"] = "return"
    /\ emo' = [emo EXCEPT !.locks["global7TV"].r = @ \ {"Fetch7TVEmotes"},
                          !.fetch["Fetch7TVEmotes"] = "done"]
    /\ EmoteFrame

\* Fetch7TVGlobalEmotes is called (at start, and when the settings are
\* saved)
G7Go ==
    /\ emo.fetch["Fetch7TVGlobalEmotes"] \in {"none", "done"}
    /\ emo' = [emo EXCEPT !.fetch["Fetch7TVGlobalEmotes"] = "api"]
    /\ EmoteFrame

\* its API request, and for the emote os.Stat and, with no file there, the
\* download, whose error is dropped
G7Api(ok) ==
    /\ emo.fetch["Fetch7TVGlobalEmotes"] = "api"
    /\ emo' = [emo EXCEPT !.fetch["Fetch7TVGlobalEmotes"] = IF ok THEN "put" ELSE "done"]
    /\ EmoteFrame

\* global7TVEmotes[emote.Name] = EmoteInfo{...}: no lock is taken
G7Put ==
    /\ emo.fetch["Fetch7TVGlobalEmotes"] = "put"
    /\ emo' = [emo EXCEPT !.catalogs["global7TV"] = @ \cup {Kappa},
                          !.fetch["Fetch7TVGlobalEmotes"] = "done"]
    /\ EmoteFrame

\* FetchBTTVChannelEmotes: http.Get and the decoding of the reply
BApi(ok) ==
    /\ emo.fetch["FetchBTTVChannelEmotes"] = "api"
    /\ emo' = [emo EXCEPT !.fetch["FetchBTTVChannelEmotes"] = IF ok THEN "lock" ELSE "done"]
    /\ EmoteFrame

\* channelsBTTVMutex.Lock() with its deferred Unlock; the map of the
\* channel is made when there is none
BLock ==
    /\ emo.fetch["FetchBTTVChannelEmotes"] = "lock"
    /\ Unlocked("channelBTTV")
    /\ emo' = [emo EXCEPT !.locks["channelBTTV"].w = "FetchBTTVChannelEmotes",
                          !.fetch["FetchBTTVChannelEmotes"] = "head"]
    /\ EmoteFrame

\* the loop comes to the emote: os.Stat and, with no file there, http.Head
\* and the download, all under the lock
BHead(ok) ==
    /\ emo.fetch["FetchBTTVChannelEmotes"] = "head"
    /\ emo' = [emo EXCEPT !.fetch["FetchBTTVChannelEmotes"] = IF ok THEN "put" ELSE "return"]
    /\ EmoteFrame

\* channelsBTTV[channelName][emote.Code] = EmoteInfo{...}
BPut ==
    /\ emo.fetch["FetchBTTVChannelEmotes"] = "put"
    /\ emo' = [emo EXCEPT !.catalogs["channelBTTV"] = @ \cup {Kappa},
                          !.fetch["FetchBTTVChannelEmotes"] = "return"]
    /\ EmoteFrame

\* the function returns: the deferred Unlock
BReturn ==
    /\ emo.fetch["FetchBTTVChannelEmotes"] = "return"
    /\ emo' = [emo EXCEPT !.locks["channelBTTV"].w = "none",
                          !.fetch["FetchBTTVChannelEmotes"] = "done"]
    /\ EmoteFrame

\* findEmote(channelName, word) is called
LookCall(channelName, word) ==
    /\ emo.look.pc = "none"
    /\ emo' = [emo EXCEPT !.look = [pc |-> "lock", channelName |-> channelName,
                                    word |-> word, i |-> 1, found |-> FALSE]]
    /\ EmoteFrame

\* mutex.RLock() of the layer findEmote has come to
LookRLock ==
    /\ emo.look.pc = "lock"
    /\ Unwritten(Layers[emo.look.i])
    /\ emo' = [emo EXCEPT !.locks[Layers[emo.look.i]].r = @ \cup {"findEmote"},
                          !.look.pc = "read"]
    /\ EmoteFrame

\* the layer is asked and mutex.RUnlock(): the entry is returned, or
\* findEmote goes on to the next layer, or returns false after the last
LookRead ==
    /\ emo.look.pc = "read"
    /\ LET layer == Layers[emo.look.i]
           hit   == Holds(emo.catalogs, layer, TrimHash(emo.look.channelName),
                          emo.look.word)
       IN  emo' = [emo EXCEPT
                     !.locks[layer].r = @ \ {"findEmote"},
                     !.look = IF hit THEN [@ EXCEPT !.pc = "none", !.found = TRUE]
                              ELSE IF emo.look.i < Len(Layers)
                              THEN [@ EXCEPT !.pc = "lock", !.i = @ + 1]
                              ELSE [@ EXCEPT !.pc = "none"]]
    /\ EmoteFrame

NextCatalog ==
    \/ GoChannelFetch
    \/ \E ok \in BOOLEAN : F7Api(ok)
    \/ \E exists \in BOOLEAN : F7Stat(exists)
    \/ F7RLock
    \/ F7Insert
    \/ \E ok \in BOOLEAN : F7Download(ok)
    \/ F7Lock
    \/ F7Store
    \/ F7Return
    \/ G7Go
    \/ \E ok \in BOOLEAN : G7Api(ok)
    \/ G7Put
    \/ \E ok \in BOOLEAN : BApi(ok)
    \/ BLock
    \/ \E ok \in BOOLEAN : BHead(ok)
    \/ BPut
    \/ BReturn
    \/ \E channelName \in LookChannels, word \in FindWords : LookCall(channelName, word)
    \/ LookRLock
    \/ LookRead

SpecCatalog == InitSup /\ [][NextCatalog]_vars

(***************************************************************************)
(* SpecForward: one caller connects, switches and disconnects the channels *)
(* while the remote of the first session sends PRIVMSG lines of several    *)
(* texts, one of them with an emotes tag whose range runs backwards        *)
(***************************************************************************)
\* the PRIVMSG lines that parse, over all sessions of a run
ForwardMsgs == 2

ForwardBodies ==
    {Body(<<"m">>, <<>>),
     Body(<<"a", "b">>, <<>>),
     Body(<<"a", "b">>, <<"2", "5", ":", "2", "-", "0">>)}

ForwardLeft(id) == socket[id].nMsg + ForwardMsgs - Carried(ConnIds, "nMsg")

NextForward ==
    \/ \E p \in Callers, ch \in Channels : ConnectLock(p, ch)
    \/ \E p \in Callers : ConnectDialFails(p)
    \/ \E p \in Callers : ConnectDialOk(p)
    \/ \E p \in Callers : ConnectSpawn(p)
    \/ \E p \in Callers : ConnectSwitched(p)
    \/ \E p \in Callers : ConnectReplay(p)
    \/ \E p \in Callers, ch \in Channels : SwitchLock(p, ch)
    \/ \E p \in Callers : SwitchEmit(p)
    \/ \E p \in Callers, ch \in Channels : DisconnectLock(p, ch)
    \/ \E p \in Callers : DisconnectSignal(p)
    \/ \E p \in Callers : DisconnectFinish(p)
    \/ \E id \in ConnIds : ListenScanner(id)
    \/ \E id \in ConnIds : ListenSelect(id)
    \/ \E id \in LiveIds : ListenScanText(id, ForwardLeft(id), 0, ForwardBodies)
    \/ \E id \in ConnIds : ListenScanError(id, FALSE)
    \/ \E id \in ConnIds : SafeSendFlag(id)
    \/ \E id \in ConnIds : SafeSendSend(id)
    \/ \E id \in ConnIds : SafeSendDrop(id)
    \/ \E id \in ConnIds : ListenDefer(id)
    \/ \E id \in ConnIds : FwdCancelled(id)
    \/ \E id \in ConnIds : FwdMessage(id)
    \/ \E id \in ConnIds : FwdReward(id)
    \/ \E id \in ConnIds : FwdError(id)
    \/ \E id \in ConnIds : FwdEmit(id)

SpecForward == InitSup /\ [][NextForward]_vars

(***************************************************************************)
(* SpecStop: one caller connects and disconnects #a; the goroutines of the *)
(* connection run beside it, the remote sends at most one PRIVMSG.         *)
(* LiveStop adds the fairness the Go scheduler gives: every goroutine that *)
(* can take a step takes one, a select whose cancellation case is ready    *)
(* again and again takes it, a dial ends.  No fairness is put on what the  *)
(* user or a remote does: a command being called, a line arriving, the     *)
(* answer to the request of GetViewerCount.                                *)
(***************************************************************************)
StopMsgs == 1

StopChannels == {"#a"}

StopLeft(id) == socket[id].nMsg + StopMsgs - Carried(ConnIds, "nMsg")

NextStop ==
    \/ \E p \in Callers, ch \in StopChannels : ConnectLock(p, ch)
    \/ \E p \in Callers : ConnectDialFails(p)
    \/ \E p \in Callers : ConnectDialOk(p)
    \/ \E p \in Callers : ConnectSpawn(p)
    \/ \E p \in Callers : ConnectSwitched(p)
    \/ \E p \in Callers : ConnectReplay(p)
    \/ \E p \in Callers, ch \in StopChannels : DisconnectLock(p, ch)
    \/ \E p \in Callers : DisconnectSignal(p)
    \/ \E p \in Callers : DisconnectFinish(p)
    \/ \E id \in ConnIds : ListenScanner(id)
    \/ \E id \in ConnIds : ListenSelect(id)
    \/ \E id \in ConnIds : ListenScanNil(id)
    \/ \E id \in LiveIds : ListenScanText(id, StopLeft(id), 0, PlainBodies)
    \/ \E id \in ConnIds : ListenScanError(id, FALSE)
    \/ \E id \in LiveIds : ListenScanEOF(id)
    \/ \E id \in LiveIds : ListenPong(id)
    \/ \E id \in ConnIds : SafeSendFlag(id)
    \/ \E id \in ConnIds : SafeSendSend(id)
    \/ \E id \in ConnIds : SafeSendDrop(id)
    \/ \E id \in ConnIds : ListenDefer(id)
    \/ \E id \in ConnIds : FwdCancelled(id)
    \/ \E id \in ConnIds : FwdMessage(id)
    \/ \E id \in ConnIds : FwdReward(id)
    \/ \E id \in ConnIds : FwdError(id)
    \/ \E id \in ConnIds : FwdEmit(id)
    \/ \E id \in ConnIds : MonCancelled(id)
    \/ \E id \in ConnIds : MonTick(id)
    \/ \E id \in ConnIds, count \in ViewerCounts : MonReply(id, count)
    \/ \E id \in ConnIds : MonFailed(id)
    \/ \E id \in ConnIds : MonEmit(id)

SpecStop == InitSup /\ [][NextStop]_vars

\* a step of the caller inside a command it has begun
CallerStep(p) ==
    \/ ConnectDialFails(p) \/ ConnectDialOk(p) \/ ConnectSpawn(p)
    \/ ConnectSwitched(p) \/ ConnectReplay(p)
    \/ DisconnectSignal(p) \/ DisconnectFinish(p)

\* a step of the listen goroutine that waits for no line of the remote
ListenStep(id) ==
    \/ ListenScanner(id) \/ ListenSelect(id) \/ ListenScanNil(id)
    \/ ListenScanError(id, FALSE) \/ ListenPong(id)
    \/ SafeSendFlag(id) \/ SafeSendSend(id) \/ SafeSendDrop(id)
    \/ ListenDefer(id)

\* a step of the forwardMessages goroutine
FwdStep(id) ==
    \/ FwdCancelled(id) \/ FwdMessage(id) \/ FwdReward(id) \/ FwdError(id)
    \/ FwdEmit(id)

FairStop ==
    /\ \A p \in Callers : WF_vars(CallerStep(p))
    /\ \A id \in ConnIds :
          /\ WF_vars(ListenStep(id))
          /\ WF_vars(FwdStep(id))
          /\ SF_vars(FwdCancelled(id))
          /\ SF_vars(MonCancelled(id))
          /\ WF_vars(MonEmit(id))

LiveStop == SpecStop /\ FairStop

(***************************************************************************)
(* SpecParse: parsePrivMsg called on lines put together from a colour tag, *)
(* a display-name tag, the sender and the rest of the line                 *)
(***************************************************************************)
\* a tag that is not sent, or its value
NoTag == [ok |-> FALSE, value |-> <<>>]

Tag(value) == [ok |-> TRUE, value |-> value]

ColorValues ==
    {<<>>,
     <<"#", "F", "F", "0", "0", "0", "0">>,
     <<"#", "0", "0", "0", "0", "0", "0">>,
     <<"#", "8", "0", "8", "0", "8", "0">>,
     <<"#", "1", "a", "2", "B", "3", "c">>,
     <<"#", "1", "2", "3", "4", "5">>,
     <<"r", "e", "d">>,
     <<"#", "G", "G", "G", "G", "G", "G">>,
     <<"F", "F", "0", "0", "0", "0">>,
     <<"#", "-", "1", "F", "F", "F", "F">>,
     <<"#", "1", "2", "3", "4", "5", "6", "7">>}

DisplayNames ==
    {<<>>,
     <<"B", "o", "b">>,
     <<"g", "k", "p", "n", "k", "l", "i", "n", "h", "s", "j", "p", "k", "i", "i", "k", "h", "o">>}

\* what follows the sender on the line
Commands ==
    {<<"P", "R", "I", "V", "M", "S", "G", " ", "#", "x", "y", "z", " ", ":", "h", "e", "l", "l", "o", " ", "w", "o", "r", "l", "d">>,
     <<"P", "R", "I", "V", "M", "S", "G", " ", "#", "x", "y", "z", " ", ":">>,
     <<"P", "R", "I", "V", "M", "S", "G", " ", "#", "x", "y", "z">>,
     <<"P", "R", "I", "V", "M", "S", "G", " ", "#", "a", " ", ":", "B", " ", "P", "R", "I", "V", "M", "S", "G", " ", "#", "b", " ", ":", "c">>,
     <<"N", "O", "T", "I", "C", "E", " ", "#", "x", "y", "z", " ", ":", "h", "e", "l", "l", "o">>,
     <<"P", "R", "I", "V", "M", "S", "G", "#", "x", " ", ":", "y", " ", "z">>,
     <<"J", "O", "I", "N", " ", "#", "x", "y", "z">>}

Sender == <<":", "a", "l", "!", "a", "l", "@", "h">>

RECURSIVE Join(_)
Join(tags) ==
    IF tags = <<>> THEN <<>>
    ELSE IF Len(tags) = 1 THEN tags[1]
    ELSE tags[1] \o <<";">> \o Join(Tail(tags))

\* the line the server sends for these tags and this command
Line(color, displayName, command) ==
    LET tags == (IF color.ok THEN <<<<"c", "o", "l", "o", "r", "=">> \o color.value>> ELSE <<>>)
                \o (IF displayName.ok
                     THEN <<<<"d", "i", "s", "p", "l", "a", "y", "-", "n", "a", "m", "e", "=">> \o displayName.value>> ELSE <<>>)
    IN  (IF tags = <<>> THEN <<>> ELSE <<"@">> \o Join(tags) \o <<" ">>)
            \o Sender \o <<" ">> \o command

\* the lines parsePrivMsg is called on; the last has no sender
ParseInputs ==
    {[data |-> Line(color, displayName, command), color |-> color] :
        color \in {NoTag} \cup {Tag(v) : v \in ColorValues},
        displayName \in {NoTag} \cup {Tag(v) : v \in DisplayNames},
        command \in Commands}
    \cup {[data |-> <<" ", "P", "R", "I", "V", "M", "S", "G", " ", "#", "x", "y", "z", " ", ":", "h", "e", "l", "l", "o", " ", "w", "o", "r", "l", "d">>, color |-> NoTag]}

ParseFrame == UNCHANGED <<rbVars, clientVars, appVars, emo, panic>>

\* msg := c.parsePrivMsg(data)
CallParsePrivMsg(input) ==
    /\ prs.op = "none"
    /\ prs' = [op |-> "parsePrivMsg", data |-> input.data, color |-> input.color,
               result |-> parsePrivMsg(input.data), prev |-> prs.prev]
    /\ ParseFrame

\* the caller has taken the result
ParseReturn ==
    /\ prs.op = "parsePrivMsg"
    /\ prs' = [op |-> "none",
               prev |-> IF prs.result.nil \/ prs.result.panic THEN prs.prev
                        ELSE [op |-> "parsePrivMsg", color |-> prs.color,
                              Username |-> prs.result.Username,
                              UserColor |-> prs.result.UserColor]]
    /\ ParseFrame

NextParse ==
    \/ \E input \in ParseInputs : CallParsePrivMsg(input)
    \/ ParseReturn

SpecParse == InitSup /\ [][NextParse]_vars

(***************************************************************************)
(* Claims about the RingBuffer                                             *)
(***************************************************************************)
\* the last n elements of s (all of s when it has fewer)
LastN(s, n) ==
    IF Len(s) <= n THEN s ELSE SubSeq(s, Len(s) - n + 1, Len(s))

IsSuffix(s, t) ==
    /\ Len(s) <= Len(t)
    /\ s = SubSeq(t, Len(t) - Len(s) + 1, Len(t))

Chronological(s) ==
    \A i \in 1..(Len(s) - 1) : s[i].Timestamp < s[i + 1].Timestamp

\* C1: after k Add calls on a RingBuffer of capacity N, GetAll returns the k
\* messages in insertion order when k <= N, and the N most recently added
\* messages, oldest first, when k > N.
C1_GetAllReturnsLastN ==
    got.op = "GetAll" =>
        /\ Len(added) <= ring.size => got.result = added
        /\ Len(added) > ring.size =>
             got.result = SubSeq(added, Len(added) - ring.size + 1, Len(added))

C1_Witness ==
    /\ got.op = "GetAll"
    /\ ring.size >= 2
    /\ Len(added) > ring.size
    /\ Len(got.result) = ring.size

\* C2: GetLast(n) returns at most min(n, N) messages, oldest first, and what
\* it returns is a suffix of what GetAll returns in the same state.
C2_GetLastChronologicalSuffix ==
    got.op = "GetLast" =>
        /\ Len(got.result) <= Min(got.n, ring.size)
        /\ Chronological(got.result)
        /\ IsSuffix(got.result, GetAll(ring))

(***************************************************************************)
(* Claims about one Client (SpecConn)                                      *)
(***************************************************************************)
Closes(c) == {c.stopChan.closes} \cup {c.chans[ch].closes : ch \in ChanNames}

StopsDone == \A p \in Procs : proc[p].pc = "stopped"

\* C3: two calls of Stop on one Client, one after the other or at the same
\* time, close stopChan and each delivery channel exactly once: no channel
\* is ever closed twice, once both calls have returned each channel has been
\* closed once, and the call that finds the flag set changes nothing of the
\* Client.
C3_StopTwiceClosesOnce ==
    /\ [](/\ panic # "close of closed channel"
          /\ \A n \in Closes(client[1]) : n <= 1
          /\ StopsDone => Closes(client[1]) = {1})
    /\ [][\A p \in Procs :
            (proc[p].pc = "idle" /\ proc'[p].pc = "stopped") =>
                /\ client[1].stopped
                /\ client' = client /\ socket' = socket /\ mu' = mu]_vars

C3_Witness ==
    /\ StopsDone
    /\ Closes(client[1]) = {1}
    /\ \A ch \in ChanNames : client[1].chans[ch].closed

IsPrefix(s, t) == Len(s) <= Len(t) /\ s = SubSeq(t, 1, Len(s))

\* C4: a delivery channel never holds more than its capacity of 10; a step
\* changes a channel's queue only by taking its head or by adding one item
\* at its tail while there is room; and the select of a safe-send on a full
\* (open) channel leaves the queue as it is and lets listen go on.
C4_DropOnFull ==
    /\ [](\A ch \in ChanNames : Len(client[1].chans[ch].buf) <= ChanCap)
    /\ [][\A ch \in ChanNames :
            LET b  == client[1].chans[ch].buf
                b2 == client'[1].chans[ch].buf
            IN  /\ \/ b2 = b
                   \/ b # <<>> /\ b2 = Tail(b)
                   \/ Len(b) < ChanCap /\ Len(b2) = Len(b) + 1 /\ IsPrefix(b, b2)
                /\ ( /\ listen[1].pc = "send" /\ listen[1].ch = ch
                     /\ listen'[1] # listen[1]
                     /\ Len(b) = ChanCap /\ ~client[1].chans[ch].closed )
                   => /\ b2 = b
                      /\ listen'[1].pc = "select"
                      /\ panic' = "none"]_vars

\* the 11th message found the message channel full of the first 10 and was
\* dropped, with no Stop under way
C4_Witness ==
    /\ socket[1].nMsg = ChanCap + 1
    /\ Len(client[1].chans["message"].buf) = ChanCap
    /\ Head(client[1].chans["message"].buf).Timestamp = 1
    /\ listen[1].pc = "select"
    /\ ~client[1].stopped

\* C5: under every interleaving of Stop with listen, listen never sends on a
\* delivery channel that Stop has closed.
C5_NoSendOnClosedChannel == panic # "send on closed channel"

\* C6: when listen ends because the read failed (a read error or the remote's
\* orderly close) and the Client has not been stopped, the error has been
\* delivered on the error channel.
C6_ReadFailureDeliversError ==
    ( /\ listen[1].pc = "done"
      /\ listen[1].exit \in {"error", "eof"}
      /\ ~client[1].stopped )
    => listen[1].delivered

\* C7: once listen has ended on a read failure the Client is Stopped (its
\* stopped flag is set), not merely not connected, and the error has been
\* delivered when the Client was not stopped before.
C7_ReadFailureStops ==
    (listen[1].pc = "done" /\ listen[1].exit \in {"error", "eof"})
    => client[1].stopped

State(c) ==
    IF c.stopped THEN "Stopped" ELSE IF c.connected THEN "Connected" ELSE "Idle"

ForwardMoves ==
    {<<"Idle", "Idle">>, <<"Idle", "Connected">>, <<"Connected", "Connected">>,
     <<"Connected", "Stopped">>, <<"Stopped", "Stopped">>}

\* C8: the state of a Client only moves Idle -> Connected -> Stopped, and
\* Stopped is absorbing: once the stopped flag is set no step clears it or
\* sets the connected flag again.
C8_OnlyForwardStoppedAbsorbing ==
    [][LET move == <<State(client[1]), State(client'[1])>>
       IN  /\ move \in ForwardMoves
           /\ client[1].stopped => client'[1].stopped /\ ~client'[1].connected]_vars

(***************************************************************************)
(* Claims about the App (SpecSup)                                          *)
(***************************************************************************)
\* C9: a channel is a key of a.connections only while its Client is
\* connecting or connected (outside the critical section of a disconnect
\* its session is alive: the connected flag is set and listen runs), and an
\* entry is removed only by the holder of connectionsMu in the critical
\* section in which it has stopped the Client.
C9_MapOnlyWhileAlive ==
    /\ [](\A ch \in Channels :
            LET id == app.connections[ch]
            IN  (id # 0 /\ appMu.w = "none") =>
                    client[id].connected /\ listen[id].pc # "done")
    /\ [][\A ch \in Channels :
            (app.connections[ch] # 0 /\ app'.connections[ch] = 0) =>
                /\ appMu.w # "none"
                /\ proc[appMu.w].cmd = "DisconnectFromChannel"
                /\ client'[app.connections[ch]].stopped]_vars

\* C10: ConnectToChannel on a channel that is registered and connected makes
\* no ChannelConnection, dials nothing, starts no goroutine, leaves
\* a.connections as it is, sets activeChannel to the channel, and emits the
\* channel's history as channel-messages.
C10_ConnectRegisteredSwitches ==
    [][\A p \in Procs :
        /\ (proc[p].pc = "idle" /\ proc'[p].pc = "switched") =>
              /\ app'.activeChannel = proc'[p].channel
              /\ app'.connections = app.connections
              /\ UNCHANGED <<client, socket, listen, conns, fwd, life>>
        /\ (proc[p].pc = "switched" /\ proc'[p].pc = "replay") =>
              UNCHANGED <<client, socket, listen, conns, fwd, life, app>>
        /\ (proc[p].pc = "replay" /\ proc'[p].pc = "idle") =>
              /\ out' = <<Event("channel-messages", proc[p].channel,
                                conns[proc[p].id].messages)>>
              /\ UNCHANGED <<client, socket, listen, conns, fwd, life, app>>]_vars

\* the ids that are values of a.connections
Registered(a) == {a.connections[ch] : ch \in Channels} \ {0}

\* C11: ConnectToChannel on a channel that is not connected, when the dial
\* succeeds, registers one new ChannelConnection under the channel and
\* nothing else, with its listen goroutine started, then starts the one
\* forwardMessages goroutine of that connection; the channel becomes the
\* active channel if and only if there was none, and an existing active
\* channel is left as it is.
C11_ConnectRegistersOne ==
    [][\A p \in Procs :
        LET id == proc[p].id
            ch == proc[p].channel
        IN  /\ (proc[p].pc = "dial" /\ proc'[p].pc = "spawn") =>
                  /\ ~IsRegistered(ch)
                  /\ id \notin Registered(app)
                  /\ app'.connections = [app.connections EXCEPT ![ch] = id]
                  /\ listen[id].pc = "none" /\ listen'[id].pc = "scanner"
                  /\ \A j \in ConnIds \ {id} : listen'[j] = listen[j]
                  /\ client'[id].connected /\ conns'[id].isConnected
                  /\ fwd' = fwd
                  /\ (app'.activeChannel = ch) <=> (app.activeChannel \in {"", ch})
                  /\ app.activeChannel # "" => app'.activeChannel = app.activeChannel
            /\ (proc[p].pc = "spawn" /\ proc'[p].pc = "idle") =>
                  /\ fwd[id].pc = "none"
                  /\ fwd' = [fwd EXCEPT ![id].pc = "run"]
                  /\ UNCHANGED <<listen, app>>]_vars

\* a second channel has been connected while the first kept the focus
C11_Witness ==
    /\ \A ch \in Channels : app.connections[ch] # 0
    /\ app.connections["#a"] # app.connections["#b"]
    /\ app.activeChannel = "#a"
    /\ \A id \in ConnIds : fwd[id].pc = "run" /\ life[id] = "spawned"
    /\ \A p \in Procs : proc[p].pc = "idle"

\* C12: SwitchToChannel on a channel that is registered and connected sets
\* activeChannel to it and emits its history as channel-messages, and does
\* not reconnect it: no ChannelConnection is made, nothing is dialled, no
\* goroutine is started and a.connections is left as it is.
C12_SwitchRegisteredReplays ==
    [][\A p \in Procs :
        /\ (proc[p].pc = "idle" /\ proc'[p].pc = "replay") =>
              /\ proc'[p].cmd = "SwitchToChannel"
              /\ app'.activeChannel = proc'[p].channel
              /\ app'.connections = app.connections
              /\ UNCHANGED <<client, socket, listen, conns, fwd, life>>
        /\ (proc[p].pc = "replay" /\ proc'[p].pc = "viewers") =>
              /\ out' = <<Event("channel-messages", proc[p].channel,
                                conns[proc[p].id].messages)>>
              /\ UNCHANGED <<client, socket, listen, conns, fwd, life, app>>
        /\ (proc[p].pc = "viewers" /\ proc'[p].pc = "idle") =>
              UNCHANGED <<client, socket, listen, conns, fwd, life, app>>]_vars

Names(events) == {events[i].name : i \in 1..Len(events)}

\* C13: DisconnectFromChannel on a registered channel cancels the context
\* of its goroutines, calls Stop on its Client and deletes its entry from
\* a.connections and no other; if it was the active channel the active
\* channel is cleared and active-channel-disconnected is emitted, otherwise
\* the active channel is left as it is and that signal is not emitted.
C13_DisconnectRemovesOne ==
    [][\A p \in Procs :
        LET id == proc'[p].id
            ch == proc'[p].channel
        IN  /\ (proc[p].pc = "idle" /\ proc'[p].pc = "signal") =>
                  /\ app.connections[ch] = id
                  /\ conns'[id].cancelled
                  /\ client'[id].stopped
                  /\ app' = app
            /\ ( /\ proc[p].cmd = "DisconnectFromChannel"
                 /\ proc[p].pc = "sleep" /\ proc'[p].pc = "idle" ) =>
                  LET i == proc[p].id
                      c == proc[p].channel
                  IN  /\ conns[i].cancelled
                      /\ client'[i].stopped
                      /\ \A n \in ChanNames : client'[i].chans[n].closed
                      /\ app'.connections = [app.connections EXCEPT ![c] = 0]
                      /\ "channel-disconnected" \in Names(out')
                      /\ IF app.activeChannel = c
                         THEN /\ app'.activeChannel = ""
                              /\ "active-channel-disconnected" \in Names(out')
                         ELSE /\ app'.activeChannel = app.activeChannel
                              /\ "active-channel-disconnected" \notin Names(out')]_vars

\* a channel that was not the active one has just been disconnected: the
\* other entry and the active channel are still there
C13_Witness ==
    /\ Names(out) = {"channel-disconnected"}
    /\ out[1].channel = "#b"
    /\ app.connections["#b"] = 0
    /\ app.connections["#a"] # 0
    /\ app.activeChannel = "#a"
    /\ \E id \in ConnIds : conns[id].channel = "#b" /\ client[id].stopped

\* C14: when DisconnectFromAllChannels returns, a.connections is empty,
\* there is no active channel, every ChannelConnection that was in the map
\* has had its context cancelled and its Client stopped (stopChan and the
\* delivery channels closed), and all-channels-disconnected has been
\* emitted once; until then the command leaves the map and the active
\* channel alone.
C14_DisconnectAllClears ==
    [][\A p \in Procs :
        proc[p].cmd = "DisconnectFromAllChannels" =>
            IF proc'[p].pc = "idle"
            THEN /\ app'.connections = [ch \in Channels |-> 0]
                 /\ app'.activeChannel = ""
                 /\ out' = <<Event("all-channels-disconnected", "", <<>>)>>
                 /\ \A id \in Registered(app) :
                       /\ conns'[id].cancelled
                       /\ client'[id].stopped
                       /\ Closes(client'[id]) = {1}
            ELSE /\ app' = app
                 /\ "all-channels-disconnected" \notin Names(out')]_vars

\* DisconnectFromAllChannels has just returned after stopping two connections
C14_Witness ==
    /\ Names(out) = {"all-channels-disconnected"}
    /\ app = NewApp
    /\ \A id \in ConnIds :
          life[id] = "spawned" /\ client[id].stopped /\ conns[id].cancelled

(***************************************************************************)
(* Claims about ConnectToAllChannels (SpecFan)                             *)
(***************************************************************************)
Range(t) == {t[i] : i \in 1..Len(t)}

\* C15, as claimed: ConnectToAllChannels returns nil only when at least one
\* channel connected, and when none connected it returns the error that
\* lists the failure of every channel.
C15_SuccessNeedsOne ==
    fan.pc = "done" =>
        /\ fan.result.ok => Len(fan.successfulConnections) >= 1
        /\ Len(fan.successfulConnections) = 0 =>
              /\ ~fan.result.ok
              /\ Range(fan.result.failures) = Range(fan.configured)

\* C15, amended: ConnectToAllChannels returns an error exactly when at
\* least one channel failed and none connected, and the error lists the
\* failure of every configured channel; it returns nil when a channel
\* connected and also when no channel is configured (nothing is tried).
C15_ErrorIffAllFailed ==
    fan.pc = "done" =>
        /\ Len(fan.connectionErrors) + Len(fan.successfulConnections)
              = Len(fan.configured)
        /\ fan.result.ok <=>
              (Len(fan.successfulConnections) >= 1 \/ fan.configured = <<>>)
        /\ ~fan.result.ok =>
              /\ Range(fan.result.failures) = Range(fan.configured)
              /\ Len(fan.result.failures) = Len(fan.configured)

\* two channels were configured and both failed
C15_Witness ==
    /\ fan.pc = "done"
    /\ Len(fan.configured) = 2
    /\ ~fan.result.ok
    /\ Len(fan.result.failures) = 2

\* C16: when some but not all configured channels fail, ConnectToAllChannels
\* returns a result that reports success and lists each failed channel, and
\* every channel that connected is in a.connections.
C16_PartialFailureListed ==
    ( /\ fan.pc = "done"
      /\ Len(fan.connectionErrors) >= 1
      /\ Len(fan.successfulConnections) >= 1 )
    => /\ fan.result.ok
       /\ Range(fan.result.failures) = Range(fan.connectionErrors)
       /\ \A ch \in Range(fan.successfulConnections) : app.connections[ch] # 0

(***************************************************************************)
(* Claims about the emote catalogs and ParseEmotes (SpecEmotes)            *)
(***************************************************************************)
\* the layers that hold `word` for channel `channelName`, as positions in
\* the precedence order
Holding(channelName, word) ==
    {i \in 1..Len(Layers) :
        /\ word \in emo.catalogs[Layers[i]]
        /\ Layers[i] \in ChannelLayers =>
               channelName \in {CatalogChannel, "#a"}}

\* C17: whatever the six catalogs hold, findEmote returns the entry of the
\* first layer, in the order channel 7TV, global 7TV, channel BTTV, global
\* BTTV, channel FFZ, global FFZ, that holds the word, and reports
\* not-found exactly when no layer holds it
C17_FirstLayerWins ==
    emo.call.op = "findEmote" =>
        LET holding == Holding(emo.call.channelName, emo.call.word)
        IN  /\ emo.call.found <=> holding # {}
            /\ holding = {} => emo.call.e = ZeroEmote
            /\ holding # {} =>
                   \E i \in holding :
                       /\ \A j \in holding : i <= j
                       /\ emo.call.e = Entry(Layers[i], emo.call.word)

\* a name held by the channel catalog and the global catalog of BTTV, and by
\* no 7TV catalog, has been looked up and came back as the channel's entry
C17_Witness ==
    /\ emo.call.op = "findEmote"
    /\ emo.call.channelName = "#a"
    /\ emo.call.word \in emo.catalogs["channelBTTV"]
    /\ emo.call.word \in emo.catalogs["globalBTTV"]
    /\ emo.call.word \notin emo.catalogs["channel7TV"]
    /\ emo.call.word \notin emo.catalogs["global7TV"]
    /\ emo.call.found
    /\ emo.call.e.ID = <<"channelBTTV">>

LayerIds == {<<Layers[i]>> : i \in 1..Len(Layers)}

\* the rune positions of an occurrence
Span(e) == e.Start..e.End

\* C18: in a ParseEmotes that has returned, every rune position of an
\* accepted native range is marked covered, no word handed to findEmote
\* touches a covered position or a native range, and no third-party
\* occurrence of the result overlaps a native one
C18_CoveredNeverLookedUp ==
    (emo.call.op = "ParseEmotes" /\ ~emo.call.panic) =>
        LET c == emo.call
        IN  /\ \A k \in 1..Len(c.native) : Span(c.native[k]) \subseteq c.covered
            /\ \A l \in 1..Len(c.lookups) :
                   /\ Span(c.lookups[l]) \cap c.covered = {}
                   /\ \A k \in 1..Len(c.native) :
                          Span(c.lookups[l]) \cap Span(c.native[k]) = {}
            /\ \A i, j \in 1..Len(c.emotes) :
                   (c.emotes[i].ID \in LayerIds /\ c.emotes[j].ID \notin LayerIds)
                       => Span(c.emotes[i]) \cap Span(c.emotes[j]) = {}

\* "Kappa test" with the tag 25:0-4, in a channel whose catalogs hold Kappa:
\* positions 0..4 are covered, only "test" was looked up, and the result is
\* the one native occurrence
C18_Witness ==
    /\ emo.call.op = "ParseEmotes"
    /\ ~emo.call.panic
    /\ emo.call.msg = [Channel |-> "#a", Content |-> <<"K", "a", "p", "p", "a", " ", "t", "e", "s", "t">>,
                       emotesTag |-> <<"2", "5", ":", "0", "-", "4">>]
    /\ Kappa \in emo.catalogs["channel7TV"]
    /\ emo.call.covered = 0..4
    /\ Len(emo.call.lookups) = 1
    /\ emo.call.lookups[1].word = <<"t", "e", "s", "t">>
    /\ Len(emo.call.emotes) = 1
    /\ emo.call.emotes[1].ID = <<"2", "5">>
    /\ emo.call.emotes[1].Name = Kappa

\* C19: whatever the emotes tag and the content, ParseEmotes returns, and
\* each native occurrence it returns has 0 <= start <= end < the number of
\* runes of the content
C19_ParseCompletesInBounds ==
    emo.call.op = "ParseEmotes" =>
        /\ ~emo.call.panic
        /\ \A k \in 1..Len(emo.call.native) :
               /\ 0 <= emo.call.native[k].Start
               /\ emo.call.native[k].Start <= emo.call.native[k].End
               /\ emo.call.native[k].End < Len(emo.call.msg.Content)

(***************************************************************************)
(* Claims about the emote downloads (SpecFetch)                            *)
(***************************************************************************)
\* the emote has been fetched: emoteCache holds it under its id, with its
\* name and the path of its file
Fetched(e) ==
    /\ e.ID \in DOMAIN emo.cache
    /\ emo.cache[e.ID].Name = e.Name
    /\ emo.cache[e.ID].FilePath # ""

\* C20: once an emote has been fetched, a later ProcessMessageEmotes of a
\* message with the same emote gets it from ParseEmotes with its FilePath
\* set and starts no download for it
C20_FetchedNotScheduledAgain ==
    [][(emo.call = NoCall /\ emo'.call.op = "ProcessMessageEmotes" /\ ~emo'.call.panic) =>
          \A k \in 1..Len(emo'.call.emotes) :
              LET e == emo'.call.emotes[k]
              IN  Fetched(e) =>
                      /\ e.FilePath # ""
                      /\ [emote |-> e, channelName |-> emo'.call.msg.Channel]
                             \notin emo'.downloads]_vars

(***************************************************************************)
(* Claims about parsePrivMsg (SpecParse)                                   *)
(***************************************************************************)
\* sub stands in s at position i (positions count from 0)
OccursAt(s, sub, i) ==
    /\ i >= 0
    /\ i + Len(sub) <= Len(s)
    /\ \A j \in 1..Len(sub) : s[i + j] = sub[j]

\* i is the first position at or after `from` where sub stands in s
FirstAt(s, sub, from, i) ==
    /\ i >= from
    /\ OccursAt(s, sub, i)
    /\ \A k \in from..(i - 1) : ~OccursAt(s, sub, k)

PrivmsgToken == <<" ", "P", "R", "I", "V", "M", "S", "G", " ">>

\* C21: a line with the token " PRIVMSG ", then a channel name, then " :"
\* and text is parsed into a Message whose channel is what stands between
\* the token and the first " :" after it and whose content is all that
\* follows that " :"; a line without the token gives no Message
C21_PrivmsgChannelContent ==
    prs.op = "parsePrivMsg" =>
        LET data == prs.data
        IN  /\ (\A i \in 0..Len(data) : ~OccursAt(data, PrivmsgToken, i))
                   => prs.result.nil
            /\ \A i, j \in 0..Len(data) :
                   (/\ FirstAt(data, PrivmsgToken, 0, i)
                    /\ FirstAt(data, <<" ", ":">>, i + Len(PrivmsgToken), j))
                   => /\ ~prs.result.nil
                      /\ ~prs.result.panic
                      /\ prs.result.Channel
                             = SubSeq(data, i + Len(PrivmsgToken) + 1, j)
                      /\ prs.result.Content = SubSeq(data, j + 3, Len(data))

IsPaletteColor(c) == \E i \in 1..Len(colors) : colors[i] = c

\* C22: the colour of a parsed Message is fixed by whether the color tag
\* was sent, its value and the username: #FFFFFF without the tag, a
\* palette entry for the empty tag, the lightened-if-dark value otherwise,
\* and the same colour as the parse before it of the same three
C22_ColorFunctionOfTriple ==
    (prs.op = "parsePrivMsg" /\ ~prs.result.nil) =>
        /\ ~prs.result.panic
        /\ ~prs.color.ok => prs.result.UserColor = White
        /\ (prs.color.ok /\ prs.color.value = <<>>)
               => IsPaletteColor(prs.result.UserColor)
        /\ (prs.color.ok /\ prs.color.value # <<>>)
               => prs.result.UserColor = convertToLightIfDark(prs.color.value)
        /\ (/\ prs.prev.op = "parsePrivMsg"
            /\ prs.prev.color = prs.color
            /\ prs.prev.Username = prs.result.Username)
               => prs.prev.UserColor = prs.result.UserColor

\* C23: the colour of every Message parsePrivMsg returns is # and six
\* hexadecimal digits
C23_ColorIsSixHexDigits ==
    (prs.op = "parsePrivMsg" /\ ~prs.result.nil /\ ~prs.result.panic) =>
        LET c == prs.result.UserColor
        IN  /\ Len(c) = 7
            /\ c[1] = "#"
            /\ \A i \in 2..7 : IsHexDigit(c[i])

(***************************************************************************)
(* Claims about forwardMessages (SpecForward)                              *)
(***************************************************************************)
\* two characters that differ at most in case
SameLetter(x, y) ==
    \/ x = y
    \/ {x, y} \in {{"a", "A"}, {"b", "B"}, {"m", "M"}}

\* the text holds one of the filter keywords, whatever the case
HasKeyword(text) ==
    \E k \in filterList : \E i \in 0..(Len(text) - Len(k)) :
        \A j \in 1..Len(k) : SameLetter(text[i + j], k[j])

\* the one signal with this name for this message of this channel
IsSignal(signals, name, channel, msg) ==
    /\ Len(signals) = 1
    /\ signals[1].name = name
    /\ signals[1].channel = channel
    /\ signals[1].data[1].Timestamp = msg.Timestamp
    /\ signals[1].data[1].Content = msg.Content

\* C24: every message the forwarding loop of a channel takes from the
\* message channel reaches the decision, and there a new-message signal is
\* emitted when the channel is the focused one, a highlight-channel signal
\* when it is not and the text holds a filter keyword in any case, and
\* nothing otherwise
C24_SurfacedByFocusAndKeyword ==
    [][\A id \in ConnIds :
         LET buf     == client[id].chans["message"].buf
             msg     == fwd[id].item
             channel == conns[id].channel
         IN  /\ Len(client'[id].chans["message"].buf) < Len(buf)
                   => fwd'[id].pc = "emitMessage" /\ fwd'[id].item = Head(buf)
             /\ (fwd[id].pc = "emitMessage" /\ fwd'[id].pc # "emitMessage")
                   => IF app.activeChannel = channel
                      THEN IsSignal(out', "new-message", channel, msg)
                      ELSE IF HasKeyword(msg.Content)
                      THEN IsSignal(out', "highlight-channel", channel, msg)
                      ELSE out' = <<>>]_vars

\* a is b with some of its elements left out, the rest in b's order
RECURSIVE IsSubsequence(_, _)
IsSubsequence(a, b) ==
    IF a = <<>> THEN TRUE
    ELSE IF b = <<>> THEN FALSE
    ELSE IF Head(a) = Head(b) THEN IsSubsequence(Tail(a), Tail(b))
    ELSE IsSubsequence(a, Tail(b))

\* the last n elements of s
LastOf(s, n) == SubSeq(s, Len(s) - Min(n, Len(s)) + 1, Len(s))

\* the history holds the messages named, in that order
IsHistoryOf(messages, msgs) ==
    /\ Len(messages) = Len(msgs)
    /\ \A i \in 1..Len(msgs) :
          /\ messages[i].Timestamp = msgs[i].Timestamp
          /\ messages[i].Content = msgs[i].Content

\* C25: for each connection, the messages appended to the history (its
\* last bufferSize entries are conn.messages) and the messages surfaced are
\* the messages the read loop gave to the RingBuffer with some left out,
\* in the same order and none twice
C25_OrderPreserved ==
    \A id \in ConnIds :
        /\ IsSubsequence(fwd[id].stored, listen[id].added)
        /\ IsSubsequence(fwd[id].shown, fwd[id].stored)
        /\ IsHistoryOf(conns[id].messages, LastOf(fwd[id].stored, bufferSize))
        /\ GetAll(client[id].messageBuffer) = LastOf(listen[id].added, bufferSize)

\* two messages were read and given to the RingBuffer, the delivery of the
\* second was dropped, and the first alone was stored and surfaced
C25_Witness ==
    \E id \in ConnIds :
        /\ Len(listen[id].added) = 2
        /\ listen[id].pc = "done"
        /\ client[id].chans["message"].buf = <<>>
        /\ fwd[id].pc = "done"
        /\ fwd[id].stored = <<listen[id].added[1]>>
        /\ fwd[id].shown = fwd[id].stored

(***************************************************************************)
(* Claims about cancellation (LiveStop)                                    *)
(***************************************************************************)
Ended(pc) == pc \in {"none", "done"}

\* C26: once DisconnectFromChannel has cancelled the context of a
\* connection, its forwardMessages, its monitorViewerCount and its listen
\* goroutine all end (or the process has ended)
C26_GoroutinesEndAfterDisconnect ==
    \A id \in ConnIds :
        conns[id].cancelled
            ~> \/ panic # "none"
               \/ /\ Ended(fwd[id].pc)
                  /\ Ended(mon[id])
                  /\ Ended(listen[id].pc)

(***************************************************************************)
(* Claims about connectionsMu (SpecFocus)                                  *)
(***************************************************************************)
\* caller p takes a step of its command
Steps(p) == proc'[p] # proc[p]

\* a step of a command under way that writes a.connections or
\* a.activeChannel, or that reads a.connections in emitRecentMessages (the
\* first step of a command takes the lock itself before it reads or writes)
TouchesMap(p) ==
    /\ Steps(p)
    /\ proc[p].pc \notin {"idle", "connect"}
    /\ app' # app \/ proc[p].pc = "replay"

\* connectionsMu is held by p, for writing or for reading
HasLock(p) == appMu.w = p \/ p \in appMu.r

\* C28: every step of a command that reads or writes a.connections or
\* a.activeChannel is taken with connectionsMu held by the caller, the
\* history replay of ConnectToChannel and SwitchToChannel included
C28_MapAccessUnderLock ==
    [][\A p \in Procs : TouchesMap(p) => HasLock(p)]_vars

(***************************************************************************)
(* Claims about connectionsMu (SpecAdd)                                    *)
(***************************************************************************)
\* where a command waits for the network: the dial of ConnectToChannel,
\* the socket close and the grace wait of Stop, the HTTP request of
\* checkStreamStatus
AtNetwork(p) == proc[p].pc \in {"dial", "signal", "sleep", "check"}

\* C27: connectionsMu is held only around a read or a write of
\* a.connections and a.activeChannel: no caller holds it while it dials,
\* closes a socket and waits, or checks the stream status, and it has no
\* holder but a command under way
C27_LockOnlyAroundMap ==
    /\ \A p \in Procs : AtNetwork(p) => ~HasLock(p)
    /\ appMu.r \subseteq {p \in Procs : proc[p].pc # "idle"}

(***************************************************************************)
(* Claims about the catalog locks (SpecCatalog)                            *)
(***************************************************************************)
\* goroutine `who` holds the write lock of the layer
Writer(layer, who) == emo.locks[layer].w = who

\* goroutine `who` holds the read lock of the layer
Reader(layer, who) == who \in emo.locks[layer].r

\* C29: every step that asks a catalog layer is taken under the read lock
\* of that layer, and every step that inserts an entry into a layer or
\* replaces the map of a channel is taken under the write lock of that layer
C29_CatalogLocks ==
    [][/\ LookRead => Reader(Layers[emo.look.i], "findEmote")
       /\ GoChannelFetch => Writer("channel7TV", "forwardMessages")
       /\ (F7Insert \/ F7Store) => Writer("channel7TV", "Fetch7TVEmotes")
       /\ G7Put => Writer("global7TV", "Fetch7TVGlobalEmotes")
       /\ BPut => Writer("channelBTTV", "FetchBTTVChannelEmotes")]_vars

(***************************************************************************)
(* Claims about unrelated channels (SpecForward, SpecCatalog)              *)
(***************************************************************************)
\* caller p is in the dial of ConnectToChannel for a channel other than
\* that of connection id
DialsOther(p, id) ==
    /\ proc[p].pc = "dial"
    /\ life[id] \in {"started", "spawned"}
    /\ conns[id].isConnected
    /\ conns[id].channel # proc[p].channel

\* the forwarding loop of connection id stands at connectionsMu.RLock()
\* and cannot take it
FwdWaits(id) == fwd[id].pc \in {"emitMessage", "emitReward"} /\ ~CanRLock

\* FetchBTTVChannelEmotes of channel #a is at its requests for the emote
FetchesOverNetwork == emo.fetch["FetchBTTVChannelEmotes"] = "head"

\* a findEmote for another channel stands at the RLock of the layer that
\* goroutine holds for writing
LookWaits ==
    /\ emo.look.pc = "lock"
    /\ TrimHash(emo.look.channelName) # CatalogChannel
    /\ Writer(Layers[emo.look.i], "FetchBTTVChannelEmotes")

\* C30: while a channel is dialled, connectionsMu can be taken by a command
\* of any other connected channel and its forwarding loop does not wait for
\* it; while the BTTV catalog of a channel is fetched, no findEmote of
\* another channel waits for a catalog lock
C30_NoWaitAcrossChannels ==
    /\ \A p \in Procs, id \in ConnIds :
          DialsOther(p, id) => CanLock /\ ~FwdWaits(id)
    /\ FetchesOverNetwork => ~LookWaits

(***************************************************************************)
(* Claims about the products of one line (SpecConn)                        *)
(***************************************************************************)
\* the reward of the line in hand is put on the reward channel in this step
DeliversReward(id) ==
    /\ listen[id].ch = "reward"
    /\ Len(client'[id].chans["reward"].buf) > Len(client[id].chans["reward"].buf)

\* the handling of the line in hand goes on to messageBuffer.Add
AddsMessage(id) == Len(listen'[id].added) > Len(listen[id].added)

\* C31: a line gives nothing, a Message or a RewardRedemption: the line
\* whose reward is delivered is not given to messageBuffer.Add and
\* safeSendMessage as well
C31_OneProductPerLine ==
    [][\A id \in ConnIds : ~(DeliversReward(id) /\ AddsMessage(id))]_vars

(***************************************************************************)
(* Claims about the error case of forwardMessages (SpecConn)               *)
(***************************************************************************)
\* the forwarding loop of connection id takes an error from the error
\* channel in this step
ReceivesError(id) ==
    /\ fwd[id].pc = "run"
    /\ fwd'[id] # fwd[id]
    /\ Len(client'[id].chans["error"].buf) < Len(client[id].chans["error"].buf)

\* C32: the forwarding loop that receives an error surfaces one
\* connection-error signal for its channel and ends, and a loop that has
\* ended takes no further step: it surfaces nothing more
C32_ErrorEndsForwarding ==
    [][\A id \in ConnIds :
          /\ ReceivesError(id) =>
                /\ out' = <<Event("connection-error", conns[id].channel, <<>>)>>
                /\ fwd'[id].pc = "done"
                /\ fwd'[id].shown = fwd[id].shown
          /\ fwd[id].pc = "done" => fwd'[id] = fwd[id]]_vars

\* the loop has taken the error the read loop delivered, after it had
\* surfaced a message, and has ended
C32_Witness ==
    \E id \in ConnIds :
        /\ fwd[id].pc = "done"
        /\ Len(fwd[id].shown) > 0
        /\ listen[id].delivered
        /\ client[id].chans["error"].buf = <<>>
        /\ Names(out) = {"connection-error"}


(***************************************************************************)
(* C33  In the periodic live-status check a channel-live-status signal is  *)
(* emitted for a channel if and only if the polled status differs from the *)
(* recorded one or none is recorded for the channel, the signal carries    *)
(* the channel and the polled status, and after the iteration the recorded *)
(* status is the polled one.                                               *)
(***************************************************************************)
PeriodicStep == app.status.pc = "record" /\ app'.status # app.status

C33_SignalOnChange ==
    [][PeriodicStep =>
         LET channel == app.status.channel
             polled == IF app.status.current THEN "live" ELSE "offline"
             recorded == app.liveStatuses[channel]
         IN  /\ out' = (IF recorded = "none" \/ recorded # polled
                        THEN <<Event("channel-live-status", channel,
                                     <<app.status.current>>)>>
                        ELSE <<>>)
             /\ app'.liveStatuses[channel] = polled]_vars

\* the periodic check has emitted the status of a channel that
\* RemoveChannel took off the list while it was polled
C33_Witness ==
    /\ app.status.ticks >= 1
    /\ app.status.pc \in {"poll", "wait"}
    /\ proc["p1"].pc = "idle"
    /\ \E name \in {TrimHash(ch) : ch \in Channels}, isLive \in BOOLEAN :
          /\ out = <<Event("channel-live-status", name, <<isLive>>)>>
          /\ ~Listed(app.channels, name)
          /\ app.liveStatuses[name] = (IF isLive THEN "live" ELSE "offline")
          /\ app.status.channel = name


(***************************************************************************)
(* C34  The history of a ChannelConnection never holds more than           *)
(* bufferSize entries; a message that arrives when it holds bufferSize     *)
(* entries removes exactly the oldest one, the others keep their order and *)
(* the new entry comes last; below capacity the entry is only appended; no *)
(* other step adds, removes or reorders entries.                           *)
(***************************************************************************)
Arrivals(messages) ==
    [k \in 1..Len(messages) |-> <<messages[k].Timestamp, messages[k].Content>>]

HistoryGrows(id) ==
    LET old == conns[id].messages
        new == conns'[id].messages
        kept == IF Len(old) = bufferSize THEN Tail(old) ELSE old
    IN  IF fwd'[id].stored # fwd[id].stored
        THEN new = Append(kept, MsgData(Head(client[id].chans["message"].buf)))
        ELSE Arrivals(new) = Arrivals(old)

C34_BoundedHistory ==
    /\ [](\A id \in ConnIds : Len(conns[id].messages) <= bufferSize)
    /\ [][\A id \in ConnIds : HistoryGrows(id)]_vars

\* a full history whose oldest entry has been dropped
C34_Witness ==
    \E id \in ConnIds :
        /\ Len(conns[id].messages) = bufferSize
        /\ Len(fwd[id].stored) > bufferSize
        /\ \A k \in 1..bufferSize :
              conns[id].messages[k] =
                  MsgData(fwd[id].stored[Len(fwd[id].stored) - bufferSize + k])


(***************************************************************************)
(* C35  For every username the empty color tag yields a palette entry:     *)
(* the index abs(hash) % 15, with the hash computed in wrapping 64-bit     *)
(* integers over the lowercased name, lies in 0..14 and the colour is the  *)
(* palette entry at that index.                                            *)
(***************************************************************************)
PaletteIndex(username) == Rem15(abs(HashFrom(Zero64, LowerAscii(username))))

EmptyColorTag ==
    /\ prs.op = "parsePrivMsg"
    /\ ~prs.result.nil
    /\ prs.color.ok /\ prs.color.value = <<>>

C35_PaletteIndexInRange ==
    EmptyColorTag =>
        /\ ~prs.result.panic
        /\ PaletteIndex(prs.result.Username) \in 0..14
        /\ prs.result.UserColor = colors[PaletteIndex(prs.result.Username) + 1]

\* the same for the parses that return: the defect is the panic alone
C35_InRangeWhenReturned ==
    (EmptyColorTag /\ ~prs.result.panic) =>
        /\ PaletteIndex(prs.result.Username) \in 0..14
        /\ prs.result.UserColor = colors[PaletteIndex(prs.result.Username) + 1]


(***************************************************************************)
(* C36  When the dial of ConnectToChannel fails, the call returns its      *)
(* error (a goroutine of ConnectToAllChannels reports it for its channel   *)
(* alone) with connectionsMu released; the connection map, the focus and   *)
(* every ChannelConnection are as before the step, no goroutine is         *)
(* started, and the connection that failed is never registered nor given a *)
(* listen, forwarding or viewer-count goroutine.                           *)
(***************************************************************************)
DialFailed(p) ==
    /\ proc[p].pc = "dial"
    /\ life[proc[p].id] = "new"
    /\ life'[proc[p].id] = "failed"

Unstarted(id) ==
    /\ listen[id] = NoListen
    /\ fwd[id] = NoFwd
    /\ mon[id] = "none"
    /\ ~conns[id].isConnected
    /\ \A ch \in Channels : app.connections[ch] # id

C36_FailedDialLeavesState ==
    /\ [][\A p \in Procs :
            DialFailed(p) =>
               /\ app' = app /\ conns' = conns /\ client' = client
               /\ listen' = listen /\ fwd' = fwd /\ mon' = mon
               /\ appMu' = [w |-> "none", r |-> appMu.r]
               /\ appMu.w = p
               /\ proc'[p].pc # "dial"
               /\ \A q \in Procs \ {p} : proc'[q] = proc[q]
               /\ IF p \in fan.workers
                  THEN /\ fan'.errors = Append(fan.errors, proc[p].channel)
                       /\ fan'.successes = fan.successes
                  ELSE fan' = fan]_vars
    /\ [](\A id \in ConnIds : life[id] = "failed" => Unstarted(id))

\* the dial to one channel has failed while the other channel is connected
\* and focused
C36_Witness ==
    \E id, other \in ConnIds :
        /\ life[id] = "failed"
        /\ conns[other].isConnected
        /\ app.connections[conns[other].channel] = other
        /\ app.activeChannel = conns[other].channel
        /\ conns[id].channel # conns[other].channel
        /\ appMu.w = "none"
        /\ \A p \in Procs : proc[p].pc = "idle"


(***************************************************************************)
(* C37  In every state the focus is empty or names one channel that is a   *)
(* key of the connection map, whatever ConnectToChannel,                   *)
(* ConnectToAllChannels, SwitchToChannel, DisconnectFromChannel and        *)
(* DisconnectFromAllChannels calls came before.                            *)
(***************************************************************************)
C37_FocusIsRegistered ==
    \/ app.activeChannel = ""
    \/ /\ app.activeChannel \in Channels
       /\ app.connections[app.activeChannel] # 0


\* one channel has been disconnected, the other is connected and holds the
\* focus, and a ConnectToAllChannels call has returned
C37_Witness ==
    \E id, other \in ConnIds :
        /\ life[id] # "free" /\ conns[id].cancelled
        /\ app.connections[conns[id].channel] = 0
        /\ conns[other].isConnected
        /\ conns[other].channel # conns[id].channel
        /\ app.activeChannel = conns[other].channel
        /\ app.connections[conns[other].channel] = other
        /\ fan.pc = "done"
        /\ \A p \in Procs : proc[p].pc = "idle"


(***************************************************************************)
(* C38  Once DisconnectFromChannel has returned for a connection, its      *)
(* forwardMessages goroutine takes no further item from the message and    *)
(* reward channels and emits no further new-message, highlight-channel or  *)
(* reward-redemption signal.                                               *)
(***************************************************************************)
DisconnectReturned(id) ==
    /\ conns[id].cancelled
    /\ ~conns[id].isConnected
    /\ \A ch \in Channels : app.connections[ch] # id
    /\ \A p \in Procs : proc[p].pc # "idle" => proc[p].id # id

TakesItem(id) ==
    /\ fwd[id].pc = "run"
    /\ fwd'[id].pc \in {"emitMessage", "emitReward"}

Surfaces(id) ==
    /\ fwd[id].pc \in {"emitMessage", "emitReward"}
    /\ fwd'[id].pc = "run"
    /\ out' # <<>>

C38_SilentAfterDisconnect ==
    [][\A id \in ConnIds :
          DisconnectReturned(id) => ~TakesItem(id) /\ ~Surfaces(id)]_vars

\* the same for the signals alone
C38_NoSignalAfterDisconnect ==
    [][\A id \in ConnIds : DisconnectReturned(id) => ~Surfaces(id)]_vars


(***************************************************************************)
(* C39  A command that has returned holds connectionsMu neither for        *)
(* writing nor for reading: when no command is running the lock is free,   *)
(* so that a later ConnectToChannel, DisconnectFromChannel or              *)
(* SwitchToChannel can take the write lock.                                *)
(***************************************************************************)
C39_LockFreeAfterReturn ==
    (\A p \in Procs : proc[p].pc = "idle") => CanLock

\* the same for the lock as the calls that are running or have returned
\* normally hold it: the defect is the read lock AddChannel returns with
C39_LockFreeButAddChannel ==
    (\A p \in Procs : proc[p].pc = "idle") =>
        appMu.w = "none" /\ appMu.r \subseteq {"returned"}


(***************************************************************************)
(* C40  Under every interleaving of Stop with listen, listen neither makes *)
(* its scanner read from, nor writes the PONG reply to, a c.conn that Stop *)
(* has set to nil.                                                         *)
(***************************************************************************)
ReadsNil(id) == listen[id].pc = "scan" /\ listen[id].reader = "nil"

WritesNil(id) == listen[id].pc = "pong" /\ client[id].conn = "nil"

C40_NoNilSocketUse ==
    /\ panic # "nil conn"
    /\ \A id \in ConnIds : ~ReadsNil(id) /\ ~WritesNil(id)

\* the two uses apart
C40_NoNilRead == \A id \in ConnIds : ~ReadsNil(id)

C40_NoNilWrite == \A id \in ConnIds : ~WritesNil(id)

====
